---------------------------- MODULE Spec2Model ----------------------------
(***************************************************************************)
(* A model of the concurrent resource-management core of the media server: *)
(* the bounded cache (CacheService), the bounded worker pool (WorkerPool), *)
(* the range streaming handler (StreamHandler) and the performance service *)
(* (PerformanceService).  Every component has its own specification over   *)
(* the one set of variables; a component's steps leave the other           *)
(* components' variables unchanged.                                        *)
(*                                                                         *)
(*   SpecCache      the cache: Set/SetWithTTL, Get, Delete, Clear, clock   *)
(*   SpecPool       the worker pool: submissions, workers, Stop            *)
(*   FairSpecPool   SpecPool with a fair scheduling of blocked callers     *)
(*   FairSpecStop   SpecPool with a fair scheduling of Stop                *)
(*   SpecStream     the streaming handler: requests and their responses    *)
(*   SpecLocks      the order of the lock calls on every call path         *)
(*   SpecListing    a directory listing fanned out over the worker pool    *)
(*   SpecPerf       the performance service: pool registry and sampling    *)
(*   SpecLifecycle  SpecPool with callers that call Stop again             *)
(***************************************************************************)
EXTENDS Integers, Sequences, FiniteSets, TLC

(***************************************************************************)
(* Bounds of the model.                                                    *)
(***************************************************************************)
\* cs.maxSize: 1000 in NewCacheService, scaled down
MaxSize == 2
\* number of cache operations, clock ticks and sweeps in one behaviour
MaxOps == 5
\* NewWorkerPool(name, workers, bufferSize): the number of workers
Workers == 2
\* NewWorkerPool(name, workers, bufferSize): the capacity of taskQueue
BufferSize == 2
\* number of tasks the pool admits to its queue in one behaviour
MaxTasks == 4
\* number of task functions that return in one behaviour (the others run
\* on without returning)
MaxDone == 2
\* number of callers blocked in SubmitAndWait at the same time
MaxWaiters == 1
\* number of Stop calls in one behaviour
MaxStops == 1

\* cs.maxMemory: 50MB in NewCacheService, scaled down
MaxMemory == 100

\* size in bytes of the largest file that is streamed
MaxFileSize == 3

\* len(entries): the number of entries of the directory that is listed
NumEntries == 5
\* batchSize: 10 in processFilesParallel, scaled down
BatchSize == 2
\* number of concurrent GetOrCreateWorkerPool calls
MaxCallers == 2
\* number of tasks a registered pool processes
MaxTotal == 1
\* number of runs of updateMetrics (ticks of the 5 s ticker)
MaxSamples == 2
\* number of PerformanceService.GetMetrics calls
MaxSnapshots == 1
\* number of streaming requests served one after the other
MaxStreams == 2

\* Key strings handed to the cache.  The empty string is a key like any
\* other for the map; evictLRU also uses it as "no key chosen yet".
Keys == {"", "a", "b"}
\* Cached values (strings of different lengths).
Values == {"x", "yy"}
\* TTLs handed to SetWithTTL, in clock ticks (all positive).
TTLs == {1, 2}

VARIABLES
  \* ---- CacheService ----
  cache,        \* cs.cache: a function from the stored keys to CacheEntry
  now,          \* the clock read by time.Now()
  hitCount,     \* cs.hitCount
  missCount,    \* cs.missCount
  evictions,    \* cs.evictions
  memoryUsage,  \* cs.memoryUsage
  written,      \* history: key -> time, TTL and value of the latest Set of it
  cLast,        \* history: the cache operation completed last and its result
  cPrev,        \* history: the operation completed before cLast
  \* ---- WorkerPool ----
  status,       \* wp.metrics.Status
  taskQueue,    \* wp.taskQueue: the tasks buffered in the channel, oldest first
  closed,       \* close(wp.taskQueue) has run
  ctxDone,      \* wp.ctx is cancelled
  stopPc,       \* Stop call -> its place in Stop()
  wpc,          \* worker -> its place in worker()/processTask()
  wtask,        \* worker -> the task it received
  werr,         \* worker -> what task.Function() returned
  idleWorkers,  \* wp.idleWorkers (atomic)
  busyWorkers,  \* wp.busyWorkers (atomic)
  tasksTotal,   \* wp.tasksTotal (atomic)
  tasksSuccess, \* wp.tasksSuccess (atomic)
  tasksFailed,  \* wp.tasksFailed (atomic)
  metrics,      \* wp.metrics: ActiveTasks and the copied totals
  calls,        \* result channel -> the SubmitAndWait call blocked on it
  resultChan,   \* result channel -> its buffer (capacity 1), as a sequence
  crashed,      \* a goroutine of the pool panicked: the process is gone
  admitted,     \* history: number of tasks admitted to taskQueue so far
  pLast,        \* history: what the call that returned in the last step returned
  burst,        \* history: submissions begun since the pool was last idle
  \* ---- StreamHandler ----
  request,      \* the HTTP request being served
  response,     \* what the handler has written to the http.ResponseWriter
  activeStreams,\* as.streamingMetrics.ActiveStreams
  \* ---- Locks ----
  lpc,          \* call path -> number of lock calls made in its current call
  holds,        \* call path -> the locks it holds, each with its mode
  \* ---- FileService.processFilesParallel ----
  lsPc,         \* the caller's place in processFilesParallel
  lsI,          \* i, the offset of the batch the loop is at
  lsJ,          \* the place in the batch of the fallback loop
  files,        \* files: the slice of results, 0 for nil
  wg,           \* the counter of the sync.WaitGroup wg
  batchOf,      \* accepted task -> the offset i its function has captured
                \* (every turn of the loop has its own i: Go 1.22 and later)
  unreadable,   \* the entries for which models.NewFileInfo returns an error
  listing,      \* compactFiles, what processFilesParallel returns
  \* ---- PerformanceService ----
  workerPools,  \* ps.workerPools: pool name -> the pool registered under it
  pools,        \* the worker pools created so far, in the order of creation
  gpc,          \* caller -> its place in GetOrCreateWorkerPool
  gname,        \* caller -> the pool name it asked for
  gret,         \* caller -> the pool GetOrCreateWorkerPool returned to it
  psStopped,    \* PerformanceService.Stop has run
  psMetrics,    \* ps.metrics.WorkerPools: the map it refers to
  heap,         \* the maps made so far: reference -> contents
  snapshots     \* the snapshots GetMetrics has returned, oldest first

cacheVars == <<cache, now, hitCount, missCount, evictions, memoryUsage,
               written, cLast, cPrev>>

stopVars == <<status, closed, ctxDone, stopPc>>
workerVars == <<wpc, wtask, werr, idleWorkers, busyWorkers>>
countVars == <<tasksTotal, tasksSuccess, tasksFailed>>
callVars == <<calls, resultChan, admitted, burst>>

poolVars == <<stopVars, workerVars, countVars, callVars, pLast, taskQueue,
              metrics, crashed>>

streamVars == <<request, response, activeStreams>>

lockVars == <<lpc, holds>>

listVars == <<lsPc, lsI, lsJ, files, wg, batchOf, unreadable, listing>>

perfVars == <<workerPools, pools, gpc, gname, gret, psStopped, psMetrics,
              heap, snapshots>>

vars == <<cacheVars, poolVars, streamVars, lockVars, listVars, perfVars>>

(***************************************************************************)
(* CacheService                                                            *)
(***************************************************************************)
\* struct CacheEntry
CacheEntry(value, expiresAt, accessCount, lastAccess) ==
  [Value |-> value, ExpiresAt |-> expiresAt,
   AccessCount |-> accessCount, LastAccess |-> lastAccess]

\* delete(cs.cache, key)
MapDelete(m, key) == [k \in (DOMAIN m) \ {key} |-> m[k]]

\* MapPut leaving the entry of a key that is already stored.
MapPutKeep(m, key, entry) ==
  [k \in (DOMAIN m) \cup {key} |-> IF k \in DOMAIN m THEN m[k] ELSE entry]

\* cs.cache[key] = entry
MapPut(m, key, entry) ==
  [k \in (DOMAIN m) \cup {key} |-> IF k = key THEN entry ELSE m[k]]

\* The orders in which `for key, entry := range cs.cache` may visit the
\* entries: Go leaves the iteration order of a map unspecified.
RangeOrders(m) ==
  {o \in [1..Cardinality(DOMAIN m) -> DOMAIN m] :
     \A i, j \in DOMAIN o : i # j => o[i] # o[j]}

\* time.Time.After / time.Time.Before
After(t, u) == t > u
Before(t, u) == t < u

\* The loop of evictLRU over the entries in the order `order`, from position
\* i on: the key held in oldestKey when the loop ends.
RECURSIVE EvictScan(_, _, _, _, _)
EvictScan(m, order, i, oldestKey, oldestTime) ==
  IF i > Len(order) THEN oldestKey
  ELSE LET key == order[i]
           entry == m[key]
       IN IF oldestKey = "" \/ Before(entry.LastAccess, oldestTime)
          THEN EvictScan(m, order, i + 1, key, entry.LastAccess)
          ELSE EvictScan(m, order, i + 1, oldestKey, oldestTime)

\* evictLRU: the keys it deletes from m (none when oldestKey ends as "").
EvictLRUKeys(m, order) ==
  LET oldestKey == EvictScan(m, order, 1, "", 0)
  IN IF oldestKey # "" THEN {oldestKey} ELSE {}

\* The guard of SetWithTTL that calls evictLRU.
AtMaxSize(m) == Cardinality(DOMAIN m) >= MaxSize

\* Mutant of Expired: the deadline is taken one tick too late.
ExpiredLate(entry, t) == After(t, entry.ExpiresAt + 1)

\* The check of Get that an entry is expired.
Expired(entry, t) == After(t, entry.ExpiresAt)

NoOp == [n |-> 0, op |-> "none", key |-> "", value |-> "", ttl |-> 0,
         at |-> 0, found |-> FALSE, ret |-> "", evicted |-> {},
         full |-> FALSE, stale |-> FALSE]

\* The history of a completed operation: r becomes the last one.
Completed(r) ==
  /\ cLast' = [r EXCEPT !.n = cLast.n + 1, !.at = now]
  /\ cPrev' = cLast

CacheInit ==
  /\ cache = [k \in {} |-> CacheEntry("", 0, 0, 0)]
  /\ now = 0
  /\ hitCount = 0
  /\ missCount = 0
  /\ evictions = 0
  /\ memoryUsage = 0
  /\ written = [k \in {} |-> [at |-> 0, ttl |-> 0, value |-> ""]]
  /\ cLast = NoOp
  /\ cPrev = NoOp

\* Mutant of SetWithTTL: the entry is stored first and evictLRU runs on the
\* map that already holds it.
SetWithTTLEvictAfter(key, value, ttl, order) ==
  LET stored == MapPut(cache, key, CacheEntry(value, now + ttl, 0, now))
      full == Cardinality(DOMAIN stored) > MaxSize
  IN \E o \in RangeOrders(stored) :
       LET gone == IF full THEN EvictLRUKeys(stored, o) ELSE {}
       IN /\ cache' = [k \in (DOMAIN stored) \ gone |-> stored[k]]
          /\ evictions' = evictions + Cardinality(gone)
          /\ written' = [k \in (DOMAIN stored) \ gone |->
                           IF k = key THEN [at |-> now, ttl |-> ttl, value |-> value]
                           ELSE written[k]]
          /\ Completed([NoOp EXCEPT !.op = "Set", !.key = key,
                                     !.value = value, !.ttl = ttl,
                                     !.evicted = gone, !.full = full])
          /\ UNCHANGED <<now, hitCount, missCount, memoryUsage, poolVars,
                 streamVars, lockVars, listVars, perfVars>>

\* SetWithTTL(key, value, ttl); Set(key, value) is SetWithTTL with the
\* default TTL.  `order` is the order in which evictLRU ranges over the map.
SetWithTTL(key, value, ttl, order) ==
  LET full == AtMaxSize(cache)
      gone == IF full THEN EvictLRUKeys(cache, order) ELSE {}
      kept == [k \in (DOMAIN cache) \ gone |-> cache[k]]
  IN /\ cache' = MapPut(kept, key, CacheEntry(value, now + ttl, 0, now))
     /\ evictions' = evictions + Cardinality(gone)
     /\ written' = [k \in ((DOMAIN cache) \ gone) \cup {key} |->
                      IF k = key THEN [at |-> now, ttl |-> ttl, value |-> value]
                      ELSE written[k]]
     /\ Completed([NoOp EXCEPT !.op = "Set", !.key = key, !.value = value,
                                !.ttl = ttl, !.evicted = gone,
                                !.full = full])
     /\ UNCHANGED <<now, hitCount, missCount, memoryUsage, poolVars,
                 streamVars, lockVars, listVars, perfVars>>

Set ==
  /\ cLast.n < MaxOps
  /\ \E key \in Keys, value \in Values, ttl \in TTLs :
       \E order \in RangeOrders(cache) : SetWithTTL(key, value, ttl, order)

\* GetKey that does not count the read of an expired entry as a miss.
GetKeyStaleUncounted(key) ==
  /\ IF key \notin DOMAIN cache
     THEN /\ missCount' = missCount + 1
          /\ Completed([NoOp EXCEPT !.op = "Get", !.key = key])
          /\ UNCHANGED <<cache, hitCount, written>>
     ELSE IF Expired(cache[key], now)
     THEN /\ cache' = MapDelete(cache, key)
          /\ written' = MapDelete(written, key)
          /\ Completed([NoOp EXCEPT !.op = "Get", !.key = key,
                                     !.stale = TRUE])
          /\ UNCHANGED <<hitCount, missCount>>
     ELSE /\ cache' = [cache EXCEPT
                         ![key].AccessCount = cache[key].AccessCount + 1,
                         ![key].LastAccess = now]
          /\ hitCount' = hitCount + 1
          /\ Completed([NoOp EXCEPT !.op = "Get", !.key = key,
                                     !.found = TRUE,
                                     !.ret = cache[key].Value])
          /\ UNCHANGED <<missCount, written>>
  /\ UNCHANGED <<now, evictions, memoryUsage, poolVars,
                 streamVars, lockVars, listVars, perfVars>>

\* Get(key)
GetKey(key) ==
  /\ IF key \notin DOMAIN cache
     THEN /\ missCount' = missCount + 1
          /\ Completed([NoOp EXCEPT !.op = "Get", !.key = key])
          /\ UNCHANGED <<cache, hitCount, written>>
     ELSE IF Expired(cache[key], now)
     THEN /\ cache' = MapDelete(cache, key)
          /\ written' = MapDelete(written, key)
          /\ missCount' = missCount + 1
          /\ Completed([NoOp EXCEPT !.op = "Get", !.key = key,
                                     !.stale = TRUE])
          /\ UNCHANGED hitCount
     ELSE /\ cache' = [cache EXCEPT
                         ![key].AccessCount = cache[key].AccessCount + 1,
                         ![key].LastAccess = now]
          /\ hitCount' = hitCount + 1
          /\ Completed([NoOp EXCEPT !.op = "Get", !.key = key,
                                     !.found = TRUE,
                                     !.ret = cache[key].Value])
          /\ UNCHANGED <<missCount, written>>
  /\ UNCHANGED <<now, evictions, memoryUsage, poolVars,
                 streamVars, lockVars, listVars, perfVars>>

Get ==
  /\ cLast.n < MaxOps
  /\ \E key \in Keys : GetKey(key)

\* Delete(key)
Delete ==
  /\ cLast.n < MaxOps
  /\ \E key \in Keys :
       /\ cache' = MapDelete(cache, key)
       /\ written' = MapDelete(written, key)
       /\ Completed([NoOp EXCEPT !.op = "Delete", !.key = key])
  /\ UNCHANGED <<now, hitCount, missCount, evictions, memoryUsage,
                 poolVars,
                 streamVars, lockVars, listVars, perfVars>>

\* Clear()
Clear ==
  /\ cLast.n < MaxOps
  /\ cache' = [k \in {} |-> CacheEntry("", 0, 0, 0)]
  /\ written' = [k \in {} |-> [at |-> 0, ttl |-> 0, value |-> ""]]
  /\ Completed([NoOp EXCEPT !.op = "Clear"])
  /\ UNCHANGED <<now, hitCount, missCount, evictions, memoryUsage,
                 poolVars,
                 streamVars, lockVars, listVars, perfVars>>

\* The clock advances by one tick between two operations (the history
\* records the time before the tick).
Tick ==
  /\ cLast.n < MaxOps
  /\ now' = now + 1
  /\ Completed([NoOp EXCEPT !.op = "Tick"])
  /\ UNCHANGED <<cache, hitCount, missCount, evictions, memoryUsage,
                 written, poolVars,
                 streamVars, lockVars, listVars, perfVars>>

\* estimateEntrySize: the base overhead of an entry
BaseSize == 64
\* estimateEntrySize for a string value
EstimateEntrySize(entry) == BaseSize + Len(entry.Value)

\* The sum of estimateEntrySize over the entries of m with a key in ks.
RECURSIVE SizeOf(_, _)
SizeOf(m, ks) ==
  IF ks = {} THEN 0
  ELSE LET k == CHOOSE x \in ks : TRUE
       IN EstimateEntrySize(m[k]) + SizeOf(m, ks \ {k})
\* The estimated memory of the entries stored in m.
StoredSize(m) == SizeOf(m, DOMAIN m)

\* ExpiredKeys taking also the entries that expire at t.
ExpiredKeysEarly(m, t) == {k \in DOMAIN m : ~Before(t, m[k].ExpiresAt)}
\* cleanup: the keys of the entries found expired at t.
ExpiredKeys(m, t) == {k \in DOMAIN m : After(t, m[k].ExpiresAt)}

\* aggressiveCleanup: entryInfo of the entries in the order of the range
EntryInfos(m, order) ==
  [i \in 1..Len(order) |->
     [key |-> order[i], lastAccess |-> m[order[i]].LastAccess,
      size |-> EstimateEntrySize(m[order[i]])]]
Swap(es, i, j) ==
  [k \in 1..Len(es) |-> IF k = i THEN es[j] ELSE IF k = j THEN es[i] ELSE es[k]]
\* aggressiveCleanup: the two nested loops that sort by last access time
RECURSIVE SortEntries(_, _, _)
SortEntries(es, i, j) ==
  IF i > Len(es) - 1 THEN es
  ELSE IF j > Len(es) THEN SortEntries(es, i + 1, i + 2)
  ELSE IF After(es[i].lastAccess, es[j].lastAccess)
       THEN SortEntries(Swap(es, i, j), i, j + 1)
       ELSE SortEntries(es, i, j + 1)
\* aggressiveCleanup: 80% of cs.maxMemory
TargetMemory == (MaxMemory * 80) \div 100
\* The outcome of a sweep: the map, cs.memoryUsage and cs.evictions.
Swept(m, usage, ev) == [cache |-> m, memoryUsage |-> usage, evictions |-> ev]
\* aggressiveCleanup: the loop that removes the oldest entries, from
\* position i on, until cs.memoryUsage is at most the target
RECURSIVE RemoveOldest(_, _, _, _, _)
RemoveOldest(m, es, i, usage, ev) ==
  IF i > Len(es) \/ usage <= TargetMemory THEN Swept(m, usage, ev)
  ELSE RemoveOldest(MapDelete(m, es[i].key), es, i + 1,
                    usage - es[i].size, ev + 1)
AggressiveCleanup(m, order, usage, ev) ==
  RemoveOldest(m, SortEntries(EntryInfos(m, order), 1, 2), 1, usage, ev)

\* cleanup(), the sweep StartCleanup runs on every tick of its ticker: the
\* expired entries are deleted, their sizes taken off cs.memoryUsage, and
\* aggressiveCleanup runs if cs.memoryUsage is then above cs.maxMemory.
Cleanup ==
  /\ cLast.n < MaxOps
  /\ LET expiredKeys == ExpiredKeys(cache, now)
         memoryFreed == SizeOf(cache, expiredKeys)
         kept == [k \in (DOMAIN cache) \ expiredKeys |-> cache[k]]
         usage == memoryUsage - memoryFreed
         ev == evictions + Cardinality(expiredKeys)
     IN \E order \in RangeOrders(kept) :
          LET res == IF usage > MaxMemory
                     THEN AggressiveCleanup(kept, order, usage, ev)
                     ELSE Swept(kept, usage, ev)
          IN /\ cache' = res.cache
             /\ memoryUsage' = res.memoryUsage
             /\ evictions' = res.evictions
             /\ written' = [k \in DOMAIN res.cache |-> written[k]]
             /\ Completed([NoOp EXCEPT !.op = "Cleanup",
                                        !.evicted = (DOMAIN cache) \ DOMAIN res.cache])
  /\ UNCHANGED <<now, hitCount, missCount, poolVars, streamVars, lockVars, listVars, perfVars>>

CacheNext == Set \/ Get \/ Delete \/ Clear \/ Tick \/ Cleanup

(***************************************************************************)
(* WorkerPool                                                              *)
(*                                                                         *)
(* A select statement is one atomic step that takes any one of the cases   *)
(* that can proceed (Go picks among them at random) and the default case   *)
(* only when none can.  A send on a closed channel "can proceed": it       *)
(* panics.  A panic in a worker goroutine ends the process (nothing in the *)
(* pool recovers it); a panic in Submit or Stop unwinds into the caller.   *)
(***************************************************************************)
WorkerIds == 1..Workers
StopIds == 1..MaxStops
\* Names for the result channels made by SubmitAndWaitWithContext.
ChanIds == 1..MaxTasks

\* struct Task.  ID: the task's name (the code only logs it); the model
\* names a submitted task by its place in the order of acceptance, 0 being
\* the empty name.  HasFn: Function is not nil.  Result: the name of the
\* result channel, 0 for nil (a task built by SubmitWithContext).
Task(id, hasFn, result) == [ID |-> id, HasFn |-> hasFn, Result |-> result]

\* The zero value of Task, which a receive from the closed, drained
\* taskQueue yields: Function and Result are nil.
ZeroTask == Task(0, FALSE, 0)

\* The state of the context a caller passes.  "live" stands for a context
\* that is not cancelled: context.Background() (Submit, SubmitAndWait),
\* which never is, or a caller's own, which may be cancelled later.
CtxStates == {"live", "cancelled"}

\* What a task function returns: nil or an error.
FnResults == {"nil", "err"}

\* A caller blocked in SubmitAndWaitWithContext on a result channel: the
\* state of its context and (history) what its task's function returned
\* when a worker ran it.  Free: no caller is blocked on the channel.
Waiting(ctx) == [pc |-> "waiting", ctx |-> ctx, fn |-> "none"]
Free == [pc |-> "free", ctx |-> "none", fn |-> "none"]

\* History of a return: the kind of call, the value returned, the select
\* case it returned through and what its task's function had returned.
Return(kind, ret, via, fn) ==
  [kind |-> kind, ret |-> ret, via |-> via, fn |-> fn]
NoReturn == Return("none", "none", "none", "none")

\* NewWorkerPool: the pool as the constructor returns it.
PoolInit ==
  /\ status = "running"
  /\ taskQueue = <<>>
  /\ closed = FALSE
  /\ ctxDone = FALSE
  /\ stopPc = [s \in StopIds |-> "none"]
  /\ wpc = [w \in WorkerIds |-> "select"]
  /\ wtask = [w \in WorkerIds |-> ZeroTask]
  /\ werr = [w \in WorkerIds |-> "nil"]
  /\ idleWorkers = Workers
  /\ busyWorkers = 0
  /\ tasksTotal = 0
  /\ tasksSuccess = 0
  /\ tasksFailed = 0
  /\ metrics = [ActiveTasks |-> 0, TotalTasks |-> 0, SuccessfulTasks |-> 0,
                FailedTasks |-> 0]
  /\ calls = [c \in ChanIds |-> Free]
  /\ resultChan = [c \in ChanIds |-> <<>>]
  /\ crashed = FALSE
  /\ admitted = 0
  /\ pLast = NoReturn
  /\ burst = 0

\* The workers that hold a task (between the receive and the loop back).
Busy == {w \in WorkerIds : wpc[w] \notin {"select", "exited"}}

\* No task is queued and no worker holds one.
PoolIdle == taskQueue = <<>> /\ Busy = {}

\* The result channels still referenced: a caller is blocked on it, or a
\* task that is queued or held by a worker carries it.
InUse ==
  {c \in ChanIds : calls[c].pc = "waiting"}
  \cup {taskQueue[i].Result : i \in 1..Len(taskQueue)}
  \cup {wtask[w].Result : w \in Busy}

\* resultChan := make(chan error, 1): a channel nothing refers to yet.
NewChan == CHOOSE c \in ChanIds \ InUse : \A d \in ChanIds \ InUse : c <= d

\* SendReady with a buffer one slot short.
SendReadyShort == ~closed /\ Len(taskQueue) < BufferSize - 1

\* `case wp.taskQueue <- task` can proceed with a send: the channel is open
\* and its buffer has room.
SendReady == ~closed /\ Len(taskQueue) < BufferSize

\* The cases of the select of SubmitWithContext / SubmitAndWaitWithContext
\* that can proceed for a caller whose context is in state ctx.
SubmitCases(ctx) ==
  LET ready == (IF SendReady THEN {"send"} ELSE {})
               \cup (IF closed THEN {"panic"} ELSE {})
               \cup (IF ctx = "cancelled" THEN {"ctx"} ELSE {})
               \cup (IF ctxDone THEN {"pool"} ELSE {})
  IN IF ready = {} THEN {"default"} ELSE ready

\* SubmitError with the default case returning nil.
SubmitErrorSilent(case) ==
  CASE case = "ctx" -> "canceled"
    [] case = "pool" -> "canceled"
    [] case = "panic" -> "panic"
    [] case = "default" -> "nil"

\* What the call returns at once for each case but "send": ctx.Err(),
\* wp.ctx.Err(), the panic of a send on the closed channel, ErrWorkerPoolFull.
SubmitError(case) ==
  CASE case = "ctx" -> "canceled"
    [] case = "pool" -> "canceled"
    [] case = "panic" -> "panic"
    [] case = "default" -> "full"

\* History: one more submission since the pool was last idle (counted up
\* to BufferSize + 1).
Burst ==
  IF PoolIdle THEN 1
  ELSE IF burst <= BufferSize THEN burst + 1 ELSE burst

\* Submit / SubmitWithContext: the select, taking one case that can proceed
SubmitWithContext ==
  /\ ~crashed
  /\ \E ctx \in CtxStates : \E case \in SubmitCases(ctx) :
       IF case = "send"
       THEN /\ admitted < MaxTasks
            /\ taskQueue' = Append(taskQueue, Task(admitted + 1, TRUE, 0))
            /\ admitted' = admitted + 1
            /\ pLast' = Return("Submit", "nil", "send", "none")
       ELSE /\ pLast' = Return("Submit", SubmitError(case), case, "none")
            /\ UNCHANGED <<taskQueue, admitted>>
  /\ burst' = Burst
  /\ UNCHANGED <<stopVars, workerVars, countVars, calls, resultChan,
                 metrics, crashed, cacheVars,
                 streamVars, lockVars, listVars, perfVars>>

\* SubmitAndWait / SubmitAndWaitWithContext: the outer select, taking one
\* case that can proceed; with the send the caller goes on to the inner
\* select.
SubmitAndWaitWithContext ==
  /\ ~crashed
  /\ \E ctx \in CtxStates : \E case \in SubmitCases(ctx) :
       IF case = "send"
       THEN /\ admitted < MaxTasks
            /\ Cardinality({c \in ChanIds : calls[c].pc = "waiting"})
                 < MaxWaiters
            /\ taskQueue' = Append(taskQueue, Task(admitted + 1, TRUE, NewChan))
            /\ admitted' = admitted + 1
            /\ calls' = [calls EXCEPT ![NewChan] = Waiting(ctx)]
            /\ resultChan' = [resultChan EXCEPT ![NewChan] = <<>>]
            /\ pLast' = NoReturn
       ELSE /\ pLast' = Return("SubmitAndWait", SubmitError(case), case,
                               "none")
            /\ UNCHANGED <<taskQueue, admitted, calls, resultChan>>
  /\ burst' = Burst
  /\ UNCHANGED <<stopVars, workerVars, countVars, metrics, crashed,
                 cacheVars,
                 streamVars, lockVars, listVars, perfVars>>

\* The cases of the inner select of SubmitAndWaitWithContext that can
\* proceed for the caller blocked on channel c.
WaitCases(c) ==
  (IF resultChan[c] # <<>> THEN {"result"} ELSE {})
  \cup (IF calls[c].ctx = "cancelled" THEN {"ctx"} ELSE {})
  \cup (IF ctxDone THEN {"pool"} ELSE {})

\* The value the inner select returns through `case`: err, ctx.Err() or
\* wp.ctx.Err().
WaitValue(c, case) ==
  IF case = "result" THEN Head(resultChan[c]) ELSE "canceled"

\* SubmitAndWaitWithContext: the inner select returns.  The channel goes
\* out of the caller's hands; what it still buffers is never read.
WaitReturn(c) ==
  /\ ~crashed
  /\ calls[c].pc = "waiting"
  /\ \E case \in WaitCases(c) :
       pLast' = Return("SubmitAndWait", WaitValue(c, case), case,
                       calls[c].fn)
  /\ calls' = [calls EXCEPT ![c] = Free]
  /\ resultChan' = [resultChan EXCEPT ![c] = <<>>]
  /\ UNCHANGED <<stopVars, workerVars, countVars, taskQueue, metrics,
                 crashed, admitted, burst, cacheVars,
                 streamVars, lockVars, listVars, perfVars>>

\* The context of a blocked caller is cancelled by its owner.
CancelCtx(c) ==
  /\ ~crashed
  /\ calls[c].pc = "waiting"
  /\ calls[c].ctx = "live"
  /\ calls' = [calls EXCEPT ![c].ctx = "cancelled"]
  /\ pLast' = NoReturn
  /\ UNCHANGED <<stopVars, workerVars, countVars, taskQueue, metrics,
                 crashed, resultChan, admitted, burst, cacheVars,
                 streamVars, lockVars, listVars, perfVars>>

\* worker: the select takes `case <-wp.ctx.Done()` and the worker returns.
WorkerExit(w) ==
  /\ ~crashed
  /\ wpc[w] = "select"
  /\ ctxDone
  /\ wpc' = [wpc EXCEPT ![w] = "exited"]
  /\ pLast' = NoReturn
  /\ UNCHANGED <<stopVars, wtask, werr, idleWorkers, busyWorkers,
                 countVars, callVars, taskQueue, metrics, crashed,
                 cacheVars,
                 streamVars, lockVars, listVars, perfVars>>

\* Received taking the newest buffered task.
ReceivedNewest ==
  IF taskQueue # <<>> THEN taskQueue[Len(taskQueue)] ELSE ZeroTask

\* What `task := <-wp.taskQueue` receives: the oldest buffered task, or the
\* zero Task once the channel is closed and drained.
Received == IF taskQueue # <<>> THEN Head(taskQueue) ELSE ZeroTask

\* worker: the select takes `case task := <-wp.taskQueue` and the worker
\* marks itself busy.
WorkerReceive(w) ==
  /\ ~crashed
  /\ wpc[w] = "select"
  /\ taskQueue # <<>> \/ closed
  /\ wtask' = [wtask EXCEPT ![w] = Received]
  /\ taskQueue' = IF taskQueue # <<>> THEN Tail(taskQueue) ELSE taskQueue
  /\ idleWorkers' = idleWorkers - 1
  /\ busyWorkers' = busyWorkers + 1
  /\ wpc' = [wpc EXCEPT ![w] = "begin"]
  /\ pLast' = NoReturn
  /\ UNCHANGED <<stopVars, werr, countVars, callVars, metrics, crashed,
                 cacheVars,
                 streamVars, lockVars, listVars, perfVars>>

\* processTask: wp.metrics.ActiveTasks++ under metricsLock
BeginTask(w) ==
  /\ ~crashed
  /\ wpc[w] = "begin"
  /\ metrics' = [metrics EXCEPT !.ActiveTasks = @ + 1]
  /\ wpc' = [wpc EXCEPT ![w] = "run"]
  /\ pLast' = NoReturn
  /\ UNCHANGED <<stopVars, wtask, werr, idleWorkers, busyWorkers,
                 countVars, callVars, taskQueue, crashed, cacheVars,
                 streamVars, lockVars, listVars, perfVars>>

\* The batch function of processFilesParallel (the function of the tasks
\* the listing submits).  Entry number e of the directory is entries[e - 1];
\* its FileInfo is written e, and 0 is nil.
\* batch := entries[i:end], as the sequence of its entries
Batch(i) ==
  LET end == IF i + BatchSize > NumEntries THEN NumEntries ELSE i + BatchSize
  IN [k \in 1..(end - i) |-> i + k]
\* models.NewFileInfo(entry, cleanPath) returns no error
Readable(e) == e \notin unreadable
\* batchFiles: the FileInfo of the entries of the batch that can be read
BatchFiles(i) == SelectSeq(Batch(i), Readable)
\* BatchWrite storing the batch from the start of the slice.
BatchWriteAtStart(fs, i) ==
  [k \in 1..Len(fs) |->
     IF k - 1 < Len(BatchFiles(i)) THEN BatchFiles(i)[k] ELSE fs[k]]
\* `for j, file := range batchFiles { if i+j < len(files) { files[i+j] = file } }`
BatchWrite(fs, i) ==
  [k \in 1..Len(fs) |->
     IF k - 1 >= i /\ k - 1 - i < Len(BatchFiles(i))
     THEN BatchFiles(i)[k - i] ELSE fs[k]]
\* The batch function with offset i runs: the results are stored under the
\* mutex and the deferred wg.Done() runs as the function returns nil.
BatchTask(i) ==
  /\ files' = BatchWrite(files, i)
  /\ wg' = wg - 1
  /\ UNCHANGED <<lsPc, lsI, lsJ, batchOf, unreadable, listing>>

\* processTask: err := task.Function() returns and
\* atomic.AddInt64(&wp.tasksTotal, 1) counts it.  The Function of the zero
\* Task is nil: calling it panics and the process ends.
RunTask(w) ==
  /\ ~crashed
  /\ wpc[w] = "run"
  /\ IF ~wtask[w].HasFn
     THEN /\ crashed' = TRUE
          /\ wpc' = [wpc EXCEPT ![w] = "panicked"]
          /\ UNCHANGED <<werr, calls, tasksTotal>>
     ELSE /\ tasksTotal < MaxDone
          /\ \E err \in FnResults :
               /\ werr' = [werr EXCEPT ![w] = err]
               /\ calls' = IF wtask[w].Result # 0
                              /\ calls[wtask[w].Result].pc = "waiting"
                           THEN [calls EXCEPT ![wtask[w].Result].fn = err]
                           ELSE calls
          /\ tasksTotal' = tasksTotal + 1
          /\ wpc' = [wpc EXCEPT ![w] = "outcome"]
          /\ UNCHANGED crashed
  /\ IF wtask[w].HasFn /\ wtask[w].ID \in DOMAIN batchOf
     THEN werr'[w] = "nil" /\ BatchTask(batchOf[wtask[w].ID])
     ELSE UNCHANGED listVars
  /\ pLast' = NoReturn
  /\ UNCHANGED <<stopVars, wtask, idleWorkers, busyWorkers, tasksSuccess,
                 tasksFailed, resultChan, admitted, burst, taskQueue,
                 metrics, cacheVars,
                 streamVars, lockVars,
                 perfVars>>

\* processTask: tasksFailed or tasksSuccess is incremented
CountOutcome(w) ==
  /\ ~crashed
  /\ wpc[w] = "outcome"
  /\ IF werr[w] # "nil"
     THEN tasksFailed' = tasksFailed + 1 /\ UNCHANGED tasksSuccess
     ELSE tasksSuccess' = tasksSuccess + 1 /\ UNCHANGED tasksFailed
  /\ wpc' = [wpc EXCEPT ![w] = "update"]
  /\ pLast' = NoReturn
  /\ UNCHANGED <<stopVars, wtask, werr, idleWorkers, busyWorkers,
                 tasksTotal, callVars, taskQueue, metrics, crashed,
                 cacheVars,
                 streamVars, lockVars, listVars, perfVars>>

\* UpdateMetrics without the decrement of ActiveTasks.
UpdateMetricsNoDecrement(w) ==
  /\ ~crashed
  /\ wpc[w] = "update"
  /\ metrics' = [ActiveTasks |-> metrics.ActiveTasks,
                 TotalTasks |-> tasksTotal,
                 SuccessfulTasks |-> tasksSuccess,
                 FailedTasks |-> tasksFailed]
  /\ wpc' = [wpc EXCEPT ![w] = "send"]
  /\ pLast' = NoReturn
  /\ UNCHANGED <<stopVars, wtask, werr, idleWorkers, busyWorkers,
                 countVars, callVars, taskQueue, crashed, cacheVars,
                 streamVars, lockVars, listVars, perfVars>>

\* processTask: under metricsLock, ActiveTasks-- and the totals are copied
UpdateMetrics(w) ==
  /\ ~crashed
  /\ wpc[w] = "update"
  /\ metrics' = [ActiveTasks |-> metrics.ActiveTasks - 1,
                 TotalTasks |-> tasksTotal,
                 SuccessfulTasks |-> tasksSuccess,
                 FailedTasks |-> tasksFailed]
  /\ wpc' = [wpc EXCEPT ![w] = "send"]
  /\ pLast' = NoReturn
  /\ UNCHANGED <<stopVars, wtask, werr, idleWorkers, busyWorkers,
                 countVars, callVars, taskQueue, crashed, cacheVars,
                 streamVars, lockVars, listVars, perfVars>>

\* ResultValue sending nil whatever the function returned.
ResultValueNil(w) == "nil"

\* The value processTask sends on task.Result.
ResultValue(w) == werr[w]

\* processTask: the non-blocking send of err on task.Result when it is not
\* nil (a channel its caller has left is never read: the send into it is
\* not recorded); then the worker marks itself idle and loops, its locals
\* gone.
SendResult(w) ==
  /\ ~crashed
  /\ wpc[w] = "send"
  /\ resultChan' =
       IF /\ wtask[w].Result # 0
          /\ calls[wtask[w].Result].pc = "waiting"
          /\ Len(resultChan[wtask[w].Result]) < 1
       THEN [resultChan EXCEPT ![wtask[w].Result] = Append(@, ResultValue(w))]
       ELSE resultChan
  /\ busyWorkers' = busyWorkers - 1
  /\ idleWorkers' = idleWorkers + 1
  /\ wpc' = [wpc EXCEPT ![w] = "select"]
  /\ wtask' = [wtask EXCEPT ![w] = ZeroTask]
  /\ werr' = [werr EXCEPT ![w] = "nil"]
  /\ pLast' = NoReturn
  /\ UNCHANGED <<stopVars, countVars, calls, admitted, burst,
                 taskQueue, metrics, crashed, cacheVars,
                 streamVars, lockVars, listVars, perfVars>>

\* Stop: wp.metrics.Status = "stopping"
StopBegin(s) ==
  /\ ~crashed
  /\ stopPc[s] = "none"
  /\ status' = "stopping"
  /\ stopPc' = [stopPc EXCEPT ![s] = "cancel"]
  /\ pLast' = NoReturn
  /\ UNCHANGED <<closed, ctxDone, workerVars, countVars, callVars,
                 taskQueue, metrics, crashed, cacheVars,
                 streamVars, lockVars, listVars, perfVars>>

\* Stop: wp.cancel()
StopCancel(s) ==
  /\ ~crashed
  /\ stopPc[s] = "cancel"
  /\ ctxDone' = TRUE
  /\ stopPc' = [stopPc EXCEPT ![s] = "close"]
  /\ pLast' = NoReturn
  /\ UNCHANGED <<status, closed, workerVars, countVars, callVars,
                 taskQueue, metrics, crashed, cacheVars,
                 streamVars, lockVars, listVars, perfVars>>

\* Stop: close(wp.taskQueue); closing a closed channel panics.
StopClose(s) ==
  /\ ~crashed
  /\ stopPc[s] = "close"
  /\ closed' = TRUE
  /\ stopPc' = [stopPc EXCEPT ![s] = IF closed THEN "panicked" ELSE "wait"]
  /\ pLast' = NoReturn
  /\ UNCHANGED <<status, ctxDone, workerVars, countVars, callVars,
                 taskQueue, metrics, crashed, cacheVars,
                 streamVars, lockVars, listVars, perfVars>>

\* Stop: wg.Wait() has returned (every worker exited), or the 30 s timer
\* fired first; then wp.metrics.Status = "stopped".
StopFinish(s) ==
  /\ ~crashed
  /\ stopPc[s] = "wait"
  /\ status' = "stopped"
  /\ stopPc' = [stopPc EXCEPT ![s] = "done"]
  /\ pLast' = NoReturn
  /\ UNCHANGED <<closed, ctxDone, workerVars, countVars, callVars,
                 taskQueue, metrics, crashed, cacheVars,
                 streamVars, lockVars, listVars, perfVars>>

\* performCleanup (on a ticker): when it reads ActiveTasks == 0 (and the
\* pool has been idle for ten minutes) it writes ActiveTasks = 0.
PerformCleanup ==
  /\ ~crashed
  /\ metrics.ActiveTasks = 0
  /\ metrics' = [metrics EXCEPT !.ActiveTasks = 0]
  /\ pLast' = NoReturn
  /\ UNCHANGED <<stopVars, workerVars, countVars, callVars, taskQueue,
                 crashed, cacheVars,
                 streamVars, lockVars, listVars, perfVars>>

\* WorkerPool.GetMetrics: under the read lock, a copy of wp.metrics with
\* the length of the queue.
GetMetrics ==
  [Status |-> status, QueueSize |-> Len(taskQueue),
   ActiveTasks |-> metrics.ActiveTasks, TotalTasks |-> metrics.TotalTasks,
   SuccessfulTasks |-> metrics.SuccessfulTasks,
   FailedTasks |-> metrics.FailedTasks]

PoolNext ==
  \/ SubmitWithContext
  \/ SubmitAndWaitWithContext
  \/ \E c \in ChanIds : WaitReturn(c)
  \/ \E c \in ChanIds : CancelCtx(c)
  \/ \E w \in WorkerIds : WorkerExit(w)
  \/ \E w \in WorkerIds : WorkerReceive(w)
  \/ \E w \in WorkerIds : BeginTask(w)
  \/ \E w \in WorkerIds : RunTask(w)
  \/ \E w \in WorkerIds : CountOutcome(w)
  \/ \E w \in WorkerIds : UpdateMetrics(w)
  \/ \E w \in WorkerIds : SendResult(w)
  \/ \E s \in StopIds : StopBegin(s)
  \/ \E s \in StopIds : StopCancel(s)
  \/ \E s \in StopIds : StopClose(s)
  \/ \E s \in StopIds : StopFinish(s)
  \/ PerformCleanup

\* Stop is called again by a caller whose Stop has returned.
StopAgain(s) ==
  /\ ~crashed
  /\ stopPc[s] = "done"
  /\ stopPc' = [stopPc EXCEPT ![s] = "none"]
  /\ pLast' = NoReturn
  /\ UNCHANGED <<status, closed, ctxDone, workerVars, countVars, callVars,
                 taskQueue, metrics, crashed, cacheVars,
                 streamVars, lockVars, listVars, perfVars>>

\* The pool with callers that submit tasks and call Stop more than once.
LifecycleNext ==
  \/ SubmitWithContext
  \/ \E w \in WorkerIds : WorkerExit(w)
  \/ \E w \in WorkerIds : WorkerReceive(w)
  \/ \E w \in WorkerIds : BeginTask(w)
  \/ \E w \in WorkerIds : RunTask(w)
  \/ \E w \in WorkerIds : CountOutcome(w)
  \/ \E w \in WorkerIds : UpdateMetrics(w)
  \/ \E w \in WorkerIds : SendResult(w)
  \/ \E s \in StopIds : StopBegin(s)
  \/ \E s \in StopIds : StopCancel(s)
  \/ \E s \in StopIds : StopClose(s)
  \/ \E s \in StopIds : StopFinish(s)
  \/ \E s \in StopIds : StopAgain(s)
  \/ PerformCleanup

(***************************************************************************)
(* StreamHandler                                                           *)
(*                                                                         *)
(* A string that the handler takes apart or puts together is a sequence of *)
(* one-character strings.  A file of size S holds the bytes 1, 2, .., S,   *)
(* so that a byte tells its place in the file.                             *)
(***************************************************************************)
\* The decimal digits and their values.
Digits == {"0", "1", "2", "3", "4", "5", "6", "7", "8", "9"}
DigitValue(c) ==
  CASE c = "0" -> 0 [] c = "1" -> 1 [] c = "2" -> 2 [] c = "3" -> 3
    [] c = "4" -> 4 [] c = "5" -> 5 [] c = "6" -> 6 [] c = "7" -> 7
    [] c = "8" -> 8 [] c = "9" -> 9
DigitChar(d) ==
  CASE d = 0 -> "0" [] d = 1 -> "1" [] d = 2 -> "2" [] d = 3 -> "3"
    [] d = 4 -> "4" [] d = 5 -> "5" [] d = 6 -> "6" [] d = 7 -> "7"
    [] d = 8 -> "8" [] d = 9 -> "9"

\* HasPrefix finding the prefix in every string.
HasPrefixAny(s, prefix) == TRUE

\* strings.HasPrefix(s, prefix)
HasPrefix(s, prefix) ==
  Len(s) >= Len(prefix) /\ SubSeq(s, 1, Len(prefix)) = prefix

\* strings.TrimPrefix(s, prefix)
TrimPrefix(s, prefix) ==
  IF HasPrefix(s, prefix) THEN SubSeq(s, Len(prefix) + 1, Len(s)) ELSE s

\* The place of the first sep in s, 0 when there is none.
RECURSIVE IndexFrom(_, _, _)
IndexFrom(s, sep, i) ==
  IF i > Len(s) THEN 0
  ELSE IF s[i] = sep THEN i
  ELSE IndexFrom(s, sep, i + 1)

\* strings.Split(s, sep) for a one-character sep: the pieces between the
\* separators, one more than there are separators (one empty piece for the
\* empty string).
RECURSIVE Split(_, _)
Split(s, sep) ==
  LET i == IndexFrom(s, sep, 1)
  IN IF i = 0 THEN <<s>>
     ELSE <<SubSeq(s, 1, i - 1)>> \o Split(SubSeq(s, i + 1, Len(s)), sep)

\* strings.TrimSpace(s): leading and trailing white space removed.
RECURSIVE TrimSpace(_)
TrimSpace(s) ==
  IF s # <<>> /\ s[1] = " " THEN TrimSpace(Tail(s))
  ELSE IF s # <<>> /\ s[Len(s)] = " " THEN TrimSpace(SubSeq(s, 1, Len(s) - 1))
  ELSE s

\* The value of a sequence of decimal digits, most significant first.
RECURSIVE DigitsValue(_)
DigitsValue(s) ==
  IF s = <<>> THEN 0
  ELSE 10 * DigitsValue(SubSeq(s, 1, Len(s) - 1)) + DigitValue(s[Len(s)])

\* strconv.ParseInt(s, 10, 64): an optional sign and then one or more
\* decimal digits, anything else is an error.  (The strings of this model
\* are too short to leave the range of int64.)
ParseInt(s) ==
  LET signed == s # <<>> /\ s[1] \in {"+", "-"}
      digits == IF signed THEN Tail(s) ELSE s
  IN IF digits = <<>> \/ \E i \in 1..Len(digits) : digits[i] \notin Digits
     THEN [ok |-> FALSE, n |-> 0]
     ELSE [ok |-> TRUE,
           n |-> IF signed /\ s[1] = "-" THEN 0 - DigitsValue(digits)
                 ELSE DigitsValue(digits)]

\* The decimal digits of a natural number, without leading zeros.
RECURSIVE NatString(_)
NatString(n) ==
  IF n < 10 THEN <<DigitChar(n)>>
  ELSE NatString(n \div 10) \o <<DigitChar(n % 10)>>

\* strconv.FormatInt(n, 10) and the verb %d of fmt.Sprintf
FormatInt(n) == IF n < 0 THEN <<"-">> \o NatString(0 - n) ELSE NatString(n)

\* The file of size S.
FileBytes(size) == [i \in 1..size |-> i]

\* "bytes=", the prefix of a Range header
BytesPrefix == <<"b", "y", "t", "e", "s", "=">>

\* fmt.Sprintf("bytes */%d", fileSize)
UnsatisfiedRange(fileSize) ==
  <<"b", "y", "t", "e", "s", " ", "*", "/">> \o FormatInt(fileSize)

\* fmt.Sprintf("bytes %d-%d/%d", start, end, fileSize)
ContentRange(start, end, fileSize) ==
  <<"b", "y", "t", "e", "s", " ">> \o FormatInt(start) \o <<"-">>
    \o FormatInt(end) \o <<"/">> \o FormatInt(fileSize)

\* A bound of a range as the client wrote it: left out, or the number n,
\* written with a leading zero or without.
NoBound == [given |-> FALSE, n |-> 0, zero |-> FALSE]
Bound(n, zero) == [given |-> TRUE, n |-> n, zero |-> zero]
BoundText(b) ==
  IF ~b.given THEN <<>>
  ELSE IF b.zero THEN <<"0">> \o FormatInt(b.n)
  ELSE FormatInt(b.n)

\* The numbers clients write in ranges: inside and outside the files of
\* the model, with one and with two digits.
RangeNumbers == 0..(MaxFileSize + 1) \cup {10}
RangeBounds ==
  {NoBound} \cup {Bound(n, FALSE) : n \in RangeNumbers} \cup {Bound(1, TRUE)}

\* What may follow the first range in the header: nothing, a further
\* range, something that is no range.
LaterRanges == {<<>>, <<",", "0", "-", "0">>, <<",", "x">>}

\* White space around the first range.
Padding == {<<>>, <<" ">>}

\* The Range header "bytes=<a>-<b>" with the bounds a and b.
RangeHeader(a, b, pad, later) ==
  BytesPrefix \o pad \o BoundText(a) \o <<"-">> \o BoundText(b) \o pad
    \o later

\* Range headers that are not of the form "bytes=<start>-<end>": without
\* the prefix "bytes=", with a first range that does not have two parts,
\* with a bound that is no number.
NoPrefixHeaders ==
  { <<"0", "-", "1">>,
    <<"B", "y", "t", "e", "s", "=", "0", "-", "1">>,
    <<"b", "y", "t", "e", "s", " ", "0", "-", "1">> }
NoRangeHeaders ==
  { BytesPrefix,
    BytesPrefix \o <<"1">>,
    BytesPrefix \o <<"0", "-", "1", "-", "2">>,
    BytesPrefix \o <<"-", "1", "-">>,
    BytesPrefix \o <<",", "0", "-", "1">> }
NoNumberHeaders ==
  { BytesPrefix \o <<"x", "-", "1">>,
    BytesPrefix \o <<"0", "-", "x">>,
    BytesPrefix \o <<"0", "x", "-", "1">>,
    BytesPrefix \o <<"0", " ", "-", "1">>,
    BytesPrefix \o <<"-", "1", "x">>,
    BytesPrefix \o <<"x", "-">> }

Methods == {"GET", "HEAD", "OPTIONS"}

\* What the file system does when the handler opens, seeks and reads the
\* file: all succeed, os.Open fails, file.Seek fails, the copy fails.
IoOutcomes == {"ok", "open", "seek", "copy"}

\* An HTTP request on /stream/<path>: its method, whether the path names
\* an existing file (ValidateFilePath and os.Stat succeed), the size of
\* that file, what the file system will do with it, the Range header
\* (empty when there is none) and (history) how the header was written.
StreamRequest(method, exists, size, io, header, shape, a, b) ==
  [method |-> method, exists |-> exists, size |-> size, io |-> io,
   header |-> header, shape |-> shape, a |-> a, b |-> b]
NoRequest ==
  StreamRequest("none", FALSE, 0, "ok", <<>>, "none", NoBound, NoBound)

\* The Range headers of the model, each with how it was written.
RangeHeaders ==
  {[header |-> <<>>, shape |-> "none", a |-> NoBound, b |-> NoBound]}
  \cup
  {[header |-> RangeHeader(r[1], r[2], r[3], r[4]), shape |-> "range",
    a |-> r[1], b |-> r[2]] :
     r \in RangeBounds \X RangeBounds \X Padding \X LaterRanges}
  \cup
  {[header |-> h, shape |-> "malformed", a |-> NoBound, b |-> NoBound] :
     h \in NoPrefixHeaders \cup NoRangeHeaders \cup NoNumberHeaders}

Requests ==
  {StreamRequest(m, e, s, io, h.header, h.shape, h.a, h.b) :
     m \in Methods, e \in BOOLEAN, s \in 0..MaxFileSize,
     io \in IoOutcomes, h \in RangeHeaders}

\* The http.ResponseWriter: the headers set, the status written (0: none
\* yet), the text written by http.Error and the file bytes written; and
\* (history) the number of WriteHeader calls, whether the path was resolved
\* (ValidateFilePath was called) and whether os.Open was called.
NoResponse ==
  [status |-> 0, AcceptRanges |-> "", CORS |-> FALSE,
   ContentLength |-> <<>>, ContentRange |-> <<>>, text |-> "",
   body |-> <<>>, opened |-> FALSE, writes |-> 0, resolved |-> FALSE]

\* w.WriteHeader(code): the first call writes the status line, a further
\* call is superfluous and changes nothing that is sent.
WriteHeader(w, code) ==
  [w EXCEPT !.status = IF w.writes = 0 THEN code ELSE @, !.writes = @ + 1]

\* setCORSHeaders
SetCORSHeaders(w) == [w EXCEPT !.CORS = TRUE]

\* setBasicStreamingHeaders
SetBasicStreamingHeaders(w, fileSize) ==
  SetCORSHeaders([w EXCEPT !.AcceptRanges = "bytes",
                           !.ContentLength = FormatInt(fileSize)])

\* http.Error(w, msg, code): the status and the message as the body.  The
\* net/http of Go 1.23 and later also deletes the Content-Length header
\* that was set; earlier ones leave it (keep).
HttpError(w, msg, code, keep) ==
  [WriteHeader(w, code) EXCEPT !.text = msg,
                               !.ContentLength = IF keep THEN @ ELSE <<>>]

\* The bytes io.CopyBuffer writes from the bytes it is to copy: all of
\* them, or the first k when the copy fails.
Copied(bytes, io, k) ==
  IF io = "copy" /\ k < Len(bytes) THEN SubSeq(bytes, 1, k) ELSE bytes

\* ServeRange copying one byte less than the range holds.
ServeRangeShort(w, start, end, fileSize, io, k, keep) ==
  IF start < 0 \/ end >= fileSize \/ start > end
  THEN HttpError([w EXCEPT !.ContentRange = UnsatisfiedRange(fileSize)],
                 "Range not satisfiable", 416, keep)
  ELSE IF io = "open" \/ io = "seek"
  THEN HttpError([w EXCEPT !.opened = TRUE],
                 "Internal server error", 500, keep)
  ELSE [WriteHeader(w, 206) EXCEPT
                 !.opened = TRUE,
                 !.ContentRange = ContentRange(start, end, fileSize),
                 !.ContentLength = FormatInt(end - start + 1),
                 !.body = Copied(SubSeq(FileBytes(fileSize), start + 1,
                                        end), io, k)]

\* ServeRange without the test start > end.
ServeRangeNoOrder(w, start, end, fileSize, io, k, keep) ==
  IF start < 0 \/ end >= fileSize
  THEN HttpError([w EXCEPT !.ContentRange = UnsatisfiedRange(fileSize)],
                 "Range not satisfiable", 416, keep)
  ELSE IF io = "open" \/ io = "seek"
  THEN HttpError([w EXCEPT !.opened = TRUE],
                 "Internal server error", 500, keep)
  ELSE [WriteHeader(w, 206) EXCEPT
                 !.opened = TRUE,
                 !.ContentRange = ContentRange(start, end, fileSize),
                 !.ContentLength = FormatInt(end - start + 1),
                 !.body = Copied(SubSeq(FileBytes(fileSize), start + 1,
                                        end + 1), io, k)]

\* handleRangeRequest from "Validate range" on, start and end being parsed
\* or defaulted.
ServeRange(w, start, end, fileSize, io, k, keep) ==
  IF start < 0 \/ end >= fileSize \/ start > end
  THEN HttpError([w EXCEPT !.ContentRange = UnsatisfiedRange(fileSize)],
                 "Range not satisfiable", 416, keep)
  ELSE IF io = "open" \/ io = "seek"
  THEN HttpError([w EXCEPT !.opened = TRUE],
                 "Internal server error", 500, keep)
  ELSE [WriteHeader(w, 206) EXCEPT
                 !.opened = TRUE,
                 !.ContentRange = ContentRange(start, end, fileSize),
                 !.ContentLength = FormatInt(end - start + 1),
                 !.body = Copied(SubSeq(FileBytes(fileSize), start + 1,
                                        end + 1), io, k)]

\* HandleRangeRequest with the omitted end defaulting to fileSize.
HandleRangeRequestEndAtSize(w, rangeHeader, fileSize, io, k, keep) ==
  IF ~HasPrefix(rangeHeader, BytesPrefix)
  THEN HttpError(w, "Invalid range header", 400, keep)
  ELSE
    LET rangeSpec == TrimPrefix(rangeHeader, BytesPrefix)
        ranges == Split(rangeSpec, ",")
        rangeParts == Split(TrimSpace(ranges[1]), "-")
    IN IF Len(ranges) = 0 \/ Len(rangeParts) # 2
       THEN HttpError(w, "Invalid range header", 400, keep)
       ELSE
         LET start == IF rangeParts[1] # <<>> THEN ParseInt(rangeParts[1])
                      ELSE [ok |-> TRUE, n |-> 0]
             end == IF rangeParts[2] # <<>> THEN ParseInt(rangeParts[2])
                    ELSE [ok |-> TRUE, n |-> fileSize]
         IN IF ~start.ok
            THEN HttpError(w, "Invalid range start", 400, keep)
            ELSE IF ~end.ok
            THEN HttpError(w, "Invalid range end", 400, keep)
            ELSE ServeRange(w, start.n, end.n, fileSize, io, k, keep)

\* HandleRangeRequest serving the last range of the header.
HandleRangeRequestLastRange(w, rangeHeader, fileSize, io, k, keep) ==
  IF ~HasPrefix(rangeHeader, BytesPrefix)
  THEN HttpError(w, "Invalid range header", 400, keep)
  ELSE
    LET rangeSpec == TrimPrefix(rangeHeader, BytesPrefix)
        ranges == Split(rangeSpec, ",")
        rangeParts == Split(TrimSpace(ranges[Len(ranges)]), "-")
    IN IF Len(ranges) = 0 \/ Len(rangeParts) # 2
       THEN HttpError(w, "Invalid range header", 400, keep)
       ELSE
         LET start == IF rangeParts[1] # <<>> THEN ParseInt(rangeParts[1])
                      ELSE [ok |-> TRUE, n |-> 0]
             end == IF rangeParts[2] # <<>> THEN ParseInt(rangeParts[2])
                    ELSE [ok |-> TRUE, n |-> fileSize - 1]
         IN IF ~start.ok
            THEN HttpError(w, "Invalid range start", 400, keep)
            ELSE IF ~end.ok
            THEN HttpError(w, "Invalid range end", 400, keep)
            ELSE ServeRange(w, start.n, end.n, fileSize, io, k, keep)

\* handleRangeRequest
HandleRangeRequest(w, rangeHeader, fileSize, io, k, keep) ==
  IF ~HasPrefix(rangeHeader, BytesPrefix)
  THEN HttpError(w, "Invalid range header", 400, keep)
  ELSE
    LET rangeSpec == TrimPrefix(rangeHeader, BytesPrefix)
        ranges == Split(rangeSpec, ",")
        rangeParts == Split(TrimSpace(ranges[1]), "-")
    IN IF Len(ranges) = 0 \/ Len(rangeParts) # 2
       THEN HttpError(w, "Invalid range header", 400, keep)
       ELSE
         LET start == IF rangeParts[1] # <<>> THEN ParseInt(rangeParts[1])
                      ELSE [ok |-> TRUE, n |-> 0]
             end == IF rangeParts[2] # <<>> THEN ParseInt(rangeParts[2])
                    ELSE [ok |-> TRUE, n |-> fileSize - 1]
         IN IF ~start.ok
            THEN HttpError(w, "Invalid range start", 400, keep)
            ELSE IF ~end.ok
            THEN HttpError(w, "Invalid range end", 400, keep)
            ELSE ServeRange(w, start.n, end.n, fileSize, io, k, keep)

\* ServeCompleteFile stopping one byte before the end of the file.
ServeCompleteFileShort(w, fileSize, io, k, keep) ==
  IF io = "open"
  THEN HttpError([w EXCEPT !.opened = TRUE],
                 "Internal server error", 500, keep)
  ELSE [WriteHeader(w, 200) EXCEPT !.opened = TRUE,
                 !.body = Copied(SubSeq(FileBytes(fileSize), 1,
                                        fileSize - 1), io, k)]

\* ServeCompleteFile answering a failed copy with a 500.
ServeCompleteFileErrorOnCopy(w, fileSize, io, k, keep) ==
  IF io = "open"
  THEN HttpError([w EXCEPT !.opened = TRUE],
                 "Internal server error", 500, keep)
  ELSE LET sent == [WriteHeader(w, 200) EXCEPT !.opened = TRUE,
                      !.body = Copied(FileBytes(fileSize), io, k)]
       IN IF io = "copy" /\ k < fileSize
          THEN HttpError(sent, "Internal server error", 500, keep)
          ELSE sent

\* serveCompleteFile
ServeCompleteFile(w, fileSize, io, k, keep) ==
  IF io = "open"
  THEN HttpError([w EXCEPT !.opened = TRUE],
                 "Internal server error", 500, keep)
  ELSE [WriteHeader(w, 200) EXCEPT !.opened = TRUE,
                 !.body = Copied(FileBytes(fileSize), io, k)]

\* Response with a HEAD request served like a GET request.
ResponseHeadServes(r, io, k, keep) ==
  IF r.method = "OPTIONS"
  THEN WriteHeader(SetCORSHeaders(NoResponse), 200)
  ELSE IF ~r.exists
  THEN HttpError([NoResponse EXCEPT !.resolved = TRUE],
                 "File not found", 404, keep)
  ELSE
    LET w == SetBasicStreamingHeaders([NoResponse EXCEPT !.resolved = TRUE],
                                      r.size)
    IN IF r.header # <<>>
       THEN HandleRangeRequest(w, r.header, r.size, io, k, keep)
       ELSE ServeCompleteFile(w, r.size, io, k, keep)

\* HandleStream: the response to the request r.
Response(r, io, k, keep) ==
  IF r.method = "OPTIONS"
  THEN WriteHeader(SetCORSHeaders(NoResponse), 200)
  ELSE IF ~r.exists
  THEN HttpError([NoResponse EXCEPT !.resolved = TRUE],
                 "File not found", 404, keep)
  ELSE
    LET w == SetBasicStreamingHeaders([NoResponse EXCEPT !.resolved = TRUE],
                                      r.size)
    IN IF r.method = "HEAD" THEN WriteHeader(w, 200)
       ELSE IF r.header # <<>>
       THEN HandleRangeRequest(w, r.header, r.size, io, k, keep)
       ELSE ServeCompleteFile(w, r.size, io, k, keep)

\* AdminService.StartStream and EndStream, on ActiveStreams
StartStream(n) == n + 1
EndStream(n) == n - 1

\* serveCompleteFile, on ActiveStreams: StartStream first; EndStream after
\* the copy, which a failed os.Open does not reach.
ServeCompleteFileStreams(n, io) ==
  IF io = "open" THEN StartStream(n) ELSE EndStream(StartStream(n))

\* HandleStream, on ActiveStreams: the other paths do not touch it.
Streams(n, r) ==
  IF r.method = "OPTIONS" \/ ~r.exists \/ r.method = "HEAD" \/ r.header # <<>>
  THEN n
  ELSE ServeCompleteFileStreams(n, r.io)

StreamInit ==
  /\ request = NoRequest
  /\ response = NoResponse
  /\ activeStreams = 0

\* A request arrives.
Request ==
  /\ request = NoRequest
  /\ request' \in Requests
  /\ UNCHANGED <<response, activeStreams, cacheVars, poolVars, lockVars,
                 listVars, perfVars>>

\* HandleStream serves the request, the file system and the build of
\* net/http being what they may.
HandleStream ==
  /\ request # NoRequest
  /\ response = NoResponse
  /\ \E k \in 0..MaxFileSize, keep \in BOOLEAN :
       response' = Response(request, request.io, k, keep)
  /\ activeStreams' = Streams(activeStreams, request)
  /\ UNCHANGED <<request, cacheVars, poolVars, lockVars, listVars, perfVars>>

\* HandleStream has returned; the server is ready for the next request.
\* Of what a request wrote, only the counters of the admin service stay.
HandlerReturn ==
  /\ response # NoResponse
  /\ activeStreams < MaxStreams
  /\ request' = NoRequest
  /\ response' = NoResponse
  /\ UNCHANGED <<activeStreams, cacheVars, poolVars, lockVars, listVars,
                 perfVars>>

StreamNext == Request \/ HandleStream \/ HandlerReturn

(***************************************************************************)
(* Locks                                                                   *)
(*                                                                         *)
(* The order in which each call path of the server takes and gives back    *)
(* the locks of the cache, the worker pool, the buffer pool and the        *)
(* performance service.  A call path is the sequence of the lock calls its *)
(* code makes; the paths run concurrently, one call of a path after the    *)
(* other.                                                                  *)
(***************************************************************************)
\* cs.mutex, wp.metricsLock, the lock inside sh.bufferPool (a sync.Pool), the
\* mutex local to processFilesParallel, ps.mutex and ps.gcMutex
Locks == {"cache", "metrics", "buffer", "listing", "perf", "gc"}
\* The locks that guard the three shared resources.
Guarded == {"cache", "metrics", "buffer"}

\* One lock call.
Ev(op, lock) == [op |-> op, lock |-> lock]

\* CacheService.Get / SetWithTTL / Delete / Clear / cleanup: Lock, deferred
\* Unlock; nothing that is called in between takes a lock.
CacheLocks == <<Ev("Lock", "cache"), Ev("Unlock", "cache")>>
\* CacheService.GetStats / GetSize
GetStatsLocks == <<Ev("RLock", "cache"), Ev("RUnlock", "cache")>>
\* The function processFilesParallel submits: the batch is read without a
\* lock, its results are stored under the local mutex.
TaskFunctionLocks == <<Ev("Lock", "listing"), Ev("Unlock", "listing")>>
\* processTask that keeps the metrics lock while the task function runs
ProcessTaskLocksHeld ==
  <<Ev("Lock", "metrics")>> \o TaskFunctionLocks
    \o <<Ev("Unlock", "metrics"), Ev("Lock", "metrics"), Ev("Unlock", "metrics")>>
\* WorkerPool.processTask: ActiveTasks++ under the lock, task.Function()
\* outside of it, the metrics update under the lock again.
ProcessTaskLocks ==
  <<Ev("Lock", "metrics"), Ev("Unlock", "metrics")>> \o TaskFunctionLocks
    \o <<Ev("Lock", "metrics"), Ev("Unlock", "metrics")>>
\* WorkerPool.Stop: Status "stopping" and Status "stopped" under the lock,
\* cancel, close and the wait for the workers outside of it.
StopLocks ==
  <<Ev("Lock", "metrics"), Ev("Unlock", "metrics"),
    Ev("Lock", "metrics"), Ev("Unlock", "metrics")>>
\* WorkerPool.GetMetrics / IsRunning
GetMetricsLocks == <<Ev("RLock", "metrics"), Ev("RUnlock", "metrics")>>
\* FileService.ListDirectory on a large directory that is not cached: the
\* cache lookup, the fan-out (Submit takes no lock; a batch that the pool
\* refuses is stored by the caller under the local mutex), the wait, and
\* the store of the sorted listing in the cache.
ListDirectoryLocks ==
  CacheLocks \o <<Ev("Lock", "listing"), Ev("Unlock", "listing")>> \o CacheLocks
\* PerformanceService.Stop: every pool is stopped under ps.mutex.
PerformanceStopLocks ==
  <<Ev("Lock", "perf")>> \o StopLocks \o <<Ev("Unlock", "perf")>>
\* PerformanceService.updateMetrics: updateGCStats and every pool's
\* GetMetrics under ps.mutex.
UpdateMetricsLocks ==
  <<Ev("Lock", "perf"), Ev("Lock", "gc"), Ev("Unlock", "gc")>>
    \o GetMetricsLocks \o <<Ev("Unlock", "perf")>>
\* copyWithBuffer / copyNWithBuffer: bufferPool.Get, the copy, the deferred
\* bufferPool.Put; each call of the pool takes and gives back its lock.
CopyWithBufferLocks ==
  <<Ev("Lock", "buffer"), Ev("Unlock", "buffer"),
    Ev("Lock", "buffer"), Ev("Unlock", "buffer")>>

PathNames ==
  {"SetWithTTL", "GetStats", "processTask", "Stop", "GetMetrics",
   "ListDirectory", "PerformanceStop", "updateMetrics", "copyWithBuffer"}

CallPath(p) ==
  CASE p = "SetWithTTL" -> CacheLocks
    [] p = "GetStats" -> GetStatsLocks
    [] p = "processTask" -> ProcessTaskLocks
    [] p = "Stop" -> StopLocks
    [] p = "GetMetrics" -> GetMetricsLocks
    [] p = "ListDirectory" -> ListDirectoryLocks
    [] p = "PerformanceStop" -> PerformanceStopLocks
    [] p = "updateMetrics" -> UpdateMetricsLocks
    [] p = "copyWithBuffer" -> CopyWithBufferLocks

LocksInit ==
  /\ lpc = [p \in PathNames |-> 0]
  /\ holds = [p \in PathNames |-> {}]

\* The lock call a path makes next.
NextEv(p) == CallPath(p)[lpc[p] + 1]
\* After its last lock call the path returns; its next call starts over.
Advance(p) == lpc' = [lpc EXCEPT ![p] = (@ + 1) % Len(CallPath(p))]
Held(p, l) == \E m \in {"r", "w"} : <<l, m>> \in holds[p]
WriteHeld(l) == \E q \in PathNames : <<l, "w">> \in holds[q]
ReadHeld(l) == \E q \in PathNames : <<l, "r">> \in holds[q]

\* sync.Mutex.Lock / sync.RWMutex.Lock: waits until nobody holds the lock.
Lock(p) ==
  /\ NextEv(p).op = "Lock"
  /\ ~WriteHeld(NextEv(p).lock) /\ ~ReadHeld(NextEv(p).lock)
  /\ holds' = [holds EXCEPT ![p] = @ \cup {<<NextEv(p).lock, "w">>}]
  /\ Advance(p)
  /\ UNCHANGED <<cacheVars, poolVars, streamVars, listVars, perfVars>>

Unlock(p) ==
  /\ NextEv(p).op = "Unlock"
  /\ holds' = [holds EXCEPT ![p] = @ \ {<<NextEv(p).lock, "w">>}]
  /\ Advance(p)
  /\ UNCHANGED <<cacheVars, poolVars, streamVars, listVars, perfVars>>

\* sync.RWMutex.RLock: waits while a writer holds the lock.
RLock(p) ==
  /\ NextEv(p).op = "RLock"
  /\ ~WriteHeld(NextEv(p).lock)
  /\ holds' = [holds EXCEPT ![p] = @ \cup {<<NextEv(p).lock, "r">>}]
  /\ Advance(p)
  /\ UNCHANGED <<cacheVars, poolVars, streamVars, listVars, perfVars>>

RUnlock(p) ==
  /\ NextEv(p).op = "RUnlock"
  /\ holds' = [holds EXCEPT ![p] = @ \ {<<NextEv(p).lock, "r">>}]
  /\ Advance(p)
  /\ UNCHANGED <<cacheVars, poolVars, streamVars, listVars, perfVars>>

LocksNext ==
  \/ \E p \in PathNames : Lock(p)
  \/ \E p \in PathNames : Unlock(p)
  \/ \E p \in PathNames : RLock(p)
  \/ \E p \in PathNames : RUnlock(p)

\* Path p cannot go on before path q has: p calls Lock on a lock q holds, or
\* RLock on a lock q holds for writing or has called Lock on (a writer that
\* waits keeps new readers out).
WaitsFor(p, q) ==
  \/ NextEv(p).op = "Lock" /\ Held(q, NextEv(p).lock)
  \/ /\ NextEv(p).op = "RLock"
     /\ \/ <<NextEv(p).lock, "w">> \in holds[q]
        \/ q # p /\ NextEv(q) = Ev("Lock", NextEv(p).lock)
\* A set of paths each of which waits for a path of the set.
Deadlocked ==
  \E S \in (SUBSET PathNames) \ {{}} : \A p \in S : \E q \in S : WaitsFor(p, q)

(***************************************************************************)
(* FileService.processFilesParallel                                        *)
(*                                                                         *)
(* One listing of a directory of NumEntries entries through the worker     *)
(* pool, with the workers of the pool and Stop running next to it.         *)
(* The statements of the caller between two uses of the pool, the mutex or *)
(* the WaitGroup are one step.                                             *)
(***************************************************************************)
NoBatches == [t \in {} |-> 0]

ListInit ==
  /\ lsPc = "idle"
  /\ lsI = 0
  /\ lsJ = 0
  /\ files = <<>>
  /\ wg = 0
  /\ batchOf = NoBatches
  /\ unreadable = {}
  /\ listing = <<>>

\* The pool variables a step of the caller outside Submit leaves alone.
ListFrame ==
  /\ pLast' = NoReturn
  /\ UNCHANGED <<stopVars, workerVars, countVars, callVars, taskQueue,
                 metrics, crashed, cacheVars, streamVars, lockVars,
                 perfVars>>

\* ListDirectory has read a directory of more than batchSize entries and
\* calls processFilesParallel: files := make([]*models.FileInfo, len(entries))
ListStart ==
  /\ ~crashed
  /\ lsPc = "idle"
  /\ NumEntries > BatchSize
  /\ \E u \in SUBSET (1..NumEntries) : unreadable' = u
  /\ files' = [k \in 1..NumEntries |-> 0]
  /\ lsPc' = "loop"
  /\ UNCHANGED <<lsI, lsJ, wg, batchOf, listing>>
  /\ ListFrame

\* One turn of the loop: wg.Add(1) and fs.workerPool.Submit of the batch at
\* offset i.  Accepted: the loop goes on with the next batch.  An error:
\* wg.Done() and the caller processes the batch itself.  The send on the
\* closed queue panics in the caller.
ListSubmit ==
  /\ ~crashed
  /\ lsPc = "loop"
  /\ lsI < NumEntries
  /\ \E case \in SubmitCases("live") :
       CASE case = "send" ->
              /\ admitted < MaxTasks
              /\ taskQueue' = Append(taskQueue, Task(admitted + 1, TRUE, 0))
              /\ admitted' = admitted + 1
              /\ batchOf' = [t \in (DOMAIN batchOf) \cup {admitted + 1} |->
                               IF t = admitted + 1 THEN lsI ELSE batchOf[t]]
              /\ wg' = wg + 1
              /\ lsI' = lsI + BatchSize
              /\ pLast' = Return("Submit", "nil", "send", "none")
              /\ UNCHANGED <<lsPc, lsJ>>
         [] case = "panic" ->
              /\ lsPc' = "panicked"
              /\ wg' = wg + 1
              /\ pLast' = Return("Submit", SubmitError(case), case, "none")
              /\ UNCHANGED <<taskQueue, admitted, batchOf, lsI, lsJ>>
         [] OTHER ->
              /\ lsPc' = "fallback"
              /\ lsJ' = 0
              /\ pLast' = Return("Submit", SubmitError(case), case, "none")
              /\ UNCHANGED <<taskQueue, admitted, batchOf, lsI, wg>>
  /\ burst' = Burst
  /\ UNCHANGED <<files, unreadable, listing>>
  /\ UNCHANGED <<stopVars, workerVars, countVars, calls, resultChan,
                 metrics, crashed, cacheVars, streamVars, lockVars,
                 perfVars>>

\* ListFallback appending every entry, readable or not.
FallbackAppendAll(fs, e) == Append(fs, e)
\* The fallback for one entry of the batch: models.NewFileInfo, and under
\* the mutex files = append(files, fileInfo) unless it returned an error.
FallbackAppend(fs, e) == IF Readable(e) THEN Append(fs, e) ELSE fs

\* One turn of the fallback loop; after the last entry of the batch the
\* outer loop goes on with the next batch.
ListFallback ==
  /\ ~crashed
  /\ lsPc = "fallback"
  /\ files' = FallbackAppend(files, Batch(lsI)[lsJ + 1])
  /\ IF lsJ + 1 < Len(Batch(lsI))
     THEN lsJ' = lsJ + 1 /\ UNCHANGED <<lsPc, lsI>>
     ELSE lsJ' = 0 /\ lsI' = lsI + BatchSize /\ lsPc' = "loop"
  /\ UNCHANGED <<wg, batchOf, unreadable, listing>>
  /\ ListFrame

\* The loop ends: the caller comes to wg.Wait().
ListLoopEnd ==
  /\ ~crashed
  /\ lsPc = "loop"
  /\ lsI >= NumEntries
  /\ lsPc' = "wait"
  /\ UNCHANGED <<lsI, lsJ, files, wg, batchOf, unreadable, listing>>
  /\ ListFrame

NotNil(file) == file # 0

\* wg.Wait() returns once the counter is zero; the nil entries are left out
\* and compactFiles is returned.
ListWaitReturn ==
  /\ ~crashed
  /\ lsPc = "wait"
  /\ wg = 0
  /\ listing' = SelectSeq(files, NotNil)
  /\ lsPc' = "done"
  /\ UNCHANGED <<lsI, lsJ, files, wg, batchOf, unreadable>>
  /\ ListFrame

ListNext ==
  \/ ListStart
  \/ ListSubmit
  \/ ListFallback
  \/ ListLoopEnd
  \/ ListWaitReturn
  \/ \E w \in WorkerIds : WorkerExit(w)
  \/ \E w \in WorkerIds : WorkerReceive(w)
  \/ \E w \in WorkerIds : BeginTask(w)
  \/ \E w \in WorkerIds : RunTask(w)
  \/ \E w \in WorkerIds : CountOutcome(w)
  \/ \E w \in WorkerIds : UpdateMetrics(w)
  \/ \E w \in WorkerIds : SendResult(w)
  \/ \E s \in StopIds : StopBegin(s)
  \/ \E s \in StopIds : StopCancel(s)
  \/ \E s \in StopIds : StopClose(s)
  \/ \E s \in StopIds : StopFinish(s)

(***************************************************************************)
(* PerformanceService                                                      *)
(*                                                                         *)
(* The registry of worker pools (ps.workerPools) with the callers of       *)
(* GetOrCreateWorkerPool, the sampling of the metrics on the ticker and    *)
(* the snapshots GetMetrics hands out.  A pool of the registry is seen as  *)
(* the service sees it: its name, its status and what its GetMetrics       *)
(* reports.  Go maps are references: a map lives in the heap, and a struct *)
(* that is copied keeps the reference.                                     *)
(***************************************************************************)
\* The names pools are asked for ("file-operations" in NewFileService).
PoolNames == {"file-operations", "thumbnails"}
Callers == 1..MaxCallers

\* nil, as a *WorkerPool and as a map
NoPool == 0
NilMap == 0

\* NewWorkerPool(name, workerCount, bufferSize): the workers are started,
\* the status is "running" when it returns.
NewWorkerPool(name) == [name |-> name, status |-> "running", total |-> 0]

\* WorkerPool.GetMetrics, as far as the model of the service goes: a copy
\* of the pool's metrics.
PoolGetMetrics(pool) == [Status |-> pool.status, TotalTasks |-> pool.total]

\* No entry under a name in a map of metrics.
Absent == [Status |-> "absent", TotalTasks |-> 0]

\* The contents of the map with reference ref in the heap h.
MapAt(h, ref) == IF ref = NilMap THEN [n \in PoolNames |-> Absent] ELSE h[ref]

PerfInit ==
  /\ workerPools = [n \in PoolNames |-> NoPool]
  /\ pools = <<>>
  /\ gpc = [c \in Callers |-> "idle"]
  /\ gname = [c \in Callers |-> ""]
  /\ gret = [c \in Callers |-> NoPool]
  /\ psStopped = FALSE
  /\ psMetrics = NilMap
  /\ heap = <<>>
  /\ snapshots = <<>>

\* What the steps of the service leave alone.
PerfFrame == UNCHANGED <<cacheVars, poolVars, streamVars, lockVars, listVars>>

\* GetOrCreateWorkerPool(name, ...) up to the return of GetWorkerPool: the
\* registry is read under the read lock; a pool that is found is returned.
GetWorkerPool(c) ==
  /\ gpc[c] = "idle"
  /\ \E name \in PoolNames :
       /\ gname' = [gname EXCEPT ![c] = name]
       /\ IF workerPools[name] # NoPool
          THEN /\ gret' = [gret EXCEPT ![c] = workerPools[name]]
               /\ gpc' = [gpc EXCEPT ![c] = "done"]
          ELSE /\ gpc' = [gpc EXCEPT ![c] = "create"]
               /\ UNCHANGED gret
  /\ UNCHANGED <<workerPools, pools, psStopped, psMetrics, heap, snapshots>>
  /\ PerfFrame

\* GetOrCreateWorkerPool after GetWorkerPool returned nil: CreateWorkerPool
\* takes the write lock, makes a pool and stores it under the name,
\* whatever is stored there.
CreateWorkerPool(c) ==
  /\ gpc[c] = "create"
  /\ pools' = Append(pools, NewWorkerPool(gname[c]))
  /\ workerPools' = [workerPools EXCEPT ![gname[c]] = Len(pools) + 1]
  /\ gret' = [gret EXCEPT ![c] = Len(pools) + 1]
  /\ gpc' = [gpc EXCEPT ![c] = "done"]
  /\ UNCHANGED <<gname, psStopped, psMetrics, heap, snapshots>>
  /\ PerfFrame

\* A worker of the pool i processes a task: the pool counts it.
PoolTask(i) ==
  /\ i \in DOMAIN pools
  /\ pools[i].status = "running"
  /\ pools[i].total < MaxTotal
  /\ pools' = [pools EXCEPT ![i].total = @ + 1]
  /\ UNCHANGED <<workerPools, gpc, gname, gret, psStopped, psMetrics, heap,
                 snapshots>>
  /\ PerfFrame

\* PerformanceService.Stop: pool.Stop() on every pool of the registry,
\* under ps.mutex.
PerfStop ==
  /\ ~psStopped
  /\ psStopped' = TRUE
  /\ pools' = [i \in DOMAIN pools |->
                 IF workerPools[pools[i].name] = i
                 THEN [pools[i] EXCEPT !.status = "stopped"]
                 ELSE pools[i]]
  /\ UNCHANGED <<workerPools, gpc, gname, gret, psMetrics, heap, snapshots>>
  /\ PerfFrame

\* updateMetrics writing the metrics of the pools into the map it has.
MakeMapReuse(h, ref, m) ==
  IF ref = NilMap THEN Append(h, m) ELSE [h EXCEPT ![ref] = m]

\* ps.metrics.WorkerPools = make(map[string]models.WorkerPoolMetrics),
\* filled with m: a map that is new in the heap h; ref is the map
\* ps.metrics.WorkerPools referred to before.
MakeMap(h, ref, m) == Append(h, m)

\* updateMetrics: under ps.mutex, the metrics of every pool of the
\* registry are copied into a new map.
PerfUpdateMetrics ==
  /\ Len(heap) < MaxSamples
  /\ heap' = MakeMap(heap, psMetrics,
                     [n \in PoolNames |->
                        IF workerPools[n] = NoPool THEN Absent
                        ELSE PoolGetMetrics(pools[workerPools[n]])])
  /\ psMetrics' = Len(heap')
  /\ UNCHANGED <<workerPools, pools, gpc, gname, gret, psStopped, snapshots>>
  /\ PerfFrame

\* PerformanceService.GetMetrics: `metrics := *ps.metrics; return &metrics`,
\* a copy of the struct, which holds the reference to the map.
PerfGetMetrics ==
  /\ Len(snapshots) < MaxSnapshots
  /\ snapshots' = Append(snapshots, [WorkerPools |-> psMetrics])
  /\ UNCHANGED <<workerPools, pools, gpc, gname, gret, psStopped, psMetrics,
                 heap>>
  /\ PerfFrame

PerfNext ==
  \/ \E c \in Callers : GetWorkerPool(c)
  \/ \E c \in Callers : CreateWorkerPool(c)
  \/ \E i \in 1..MaxCallers : PoolTask(i)
  \/ PerfStop
  \/ PerfUpdateMetrics
  \/ PerfGetMetrics

(***************************************************************************)
(* Specifications                                                          *)
(***************************************************************************)
Init ==
  CacheInit /\ PoolInit /\ StreamInit /\ LocksInit /\ ListInit /\ PerfInit

SpecCache == Init /\ [][CacheNext]_vars

SpecPool == Init /\ [][PoolNext]_vars

SpecStream == Init /\ [][StreamNext]_vars

SpecLocks == Init /\ [][LocksNext]_vars

SpecListing == Init /\ [][ListNext]_vars

SpecPerf == Init /\ [][PerfNext]_vars

SpecLifecycle == Init /\ [][LifecycleNext]_vars

\* A caller blocked in the inner select of SubmitAndWaitWithContext is a
\* goroutine the scheduler runs: once a case of the select can proceed
\* (and they stay so) the select is taken.  Nothing makes a task function
\* return, a context be cancelled or Stop be called.
FairSpecPool == SpecPool /\ \A c \in ChanIds : WF_vars(WaitReturn(c))

\* The goroutine that called Stop is run by the scheduler: Stop is
\* straight-line code up to its last select, where the 30 s timer makes a
\* case ready in the end whatever the workers do.
StopRuns(s) == StopCancel(s) \/ StopClose(s) \/ StopFinish(s)

FairSpecStop == SpecPool /\ \A s \in StopIds : WF_vars(StopRuns(s))

(***************************************************************************)
(* Claims about the cache, checked under SpecCache.                        *)
(***************************************************************************)
\* A step that completes one Set / one Get.
SetStep == cLast'.n = cLast.n + 1 /\ cLast'.op = "Set"
GetStep == cLast'.n = cLast.n + 1 /\ cLast'.op = "Get"

\* C1: after any sequence of Set/SetWithTTL calls, for every key string and
\* every interleaving with Get, the number of stored entries never exceeds
\* maxSize.
C1_SizeWithinMax == Cardinality(DOMAIN cache) <= MaxSize

\* C2: a Get(k) issued immediately after Set(k, v, t) with t > 0 (no time
\* elapsed, no operation in between) returns (v, true), also when the Set
\* evicted an entry.
C2_GetAfterSet ==
  (/\ cLast.op = "Get"
   /\ cPrev.op = "Set"
   /\ cPrev.key = cLast.key
   /\ cPrev.ttl > 0
   /\ cLast.at = cPrev.at)
  => (cLast.found /\ cLast.ret = cPrev.value)

\* C2's case: the Get directly follows a Set that ran evictLRU with the
\* cache at maxSize.
C2_Witness ==
  /\ cLast.op = "Get"
  /\ cPrev.op = "Set"
  /\ cPrev.key = cLast.key
  /\ cLast.at = cPrev.at
  /\ cPrev.full
  /\ cPrev.evicted # {}

\* The time that has passed at `now` since the latest Set of key k.
Elapsed(k) == now - written[k].at

\* C3 as stated: once a time >= t has elapsed since Set(k, v, t), with no
\* later Set of k, Get(k) returns found = false and deletes the entry.
C3_ExpiredAtTTL ==
  [][\A k \in DOMAIN written :
        (GetStep /\ cLast'.key = k /\ Elapsed(k) >= written[k].ttl)
        => (~cLast'.found /\ k \notin DOMAIN cache')]_vars

\* C3 as amended: once a time strictly greater than t has elapsed since
\* Set(k, v, t), with no later Set of k, Get(k) returns found = false and
\* deletes the entry.
C3_ExpiredAfterTTL ==
  [][\A k \in DOMAIN written :
        (GetStep /\ cLast'.key = k /\ Elapsed(k) > written[k].ttl)
        => (~cLast'.found /\ k \notin DOMAIN cache')]_vars

\* C3's case: a Get found a stale entry and deleted it.
C3_Witness ==
  /\ cLast.op = "Get"
  /\ cLast.stale
  /\ ~cLast.found
  /\ cLast.key \notin DOMAIN cache
  /\ cPrev.op = "Tick"

\* C4: whenever a Set triggers a capacity eviction, exactly one entry is
\* removed and its lastAccess is minimal among the entries present.
C4_EvictsOldest ==
  [][(SetStep /\ cLast'.full)
     => /\ Cardinality(cLast'.evicted) = 1
        /\ DOMAIN cache' = ((DOMAIN cache) \ cLast'.evicted) \cup {cLast'.key}
        /\ \A k \in cLast'.evicted : \A j \in DOMAIN cache :
              cache[k].LastAccess <= cache[j].LastAccess]_vars

\* C18: a Get(k) returns (v, true) for the value v of the latest completed
\* Set of k, unless the entry has since expired or was evicted, deleted or
\* cleared (then it returns not-found); and below the entry cap a Set or
\* Get of another key leaves the entry of k as it was, so operations on
\* disjoint keys see the last write to their own key however they
\* interleave.
C18_GetSeesLastSet ==
  [][/\ GetStep
          => LET k == cLast'.key
             IN IF k \in DOMAIN written /\ Elapsed(k) <= written[k].ttl
                THEN cLast'.found /\ cLast'.ret = written[k].value
                ELSE ~cLast'.found
     /\ (GetStep \/ (SetStep /\ ~cLast'.full))
          => \A k \in (DOMAIN cache) \ {cLast'.key} :
               k \in DOMAIN cache' /\ cache'[k] = cache[k]]_vars

\* A Get has found its key after a Set of another key came in between.
C18_Witness ==
  /\ cLast.op = "Get" /\ cLast.found
  /\ cPrev.op = "Set" /\ cPrev.key # cLast.key
  /\ cLast.ret = "yy"

\* C24: a Set on a key that is already stored evicts nothing: it overwrites
\* the entry of its key and leaves the entry of every other key in the
\* cache, also when the cache holds MaxSize entries.
C24_OverwriteKeepsOthers ==
  [][(SetStep /\ cLast'.key \in DOMAIN cache)
       => /\ cLast'.evicted = {}
          /\ \A k \in (DOMAIN cache) \ {cLast'.key} :
               k \in DOMAIN cache' /\ cache'[k] = cache[k]]_vars

\* A step that completes one sweep.
CleanupStep == cLast'.n = cLast.n + 1 /\ cLast'.op = "Cleanup"

\* C25: after every sweep the estimated memory of the entries still stored
\* is at most MaxMemory (a sweep that leaves more evicts the least recently
\* accessed entries until the estimate is at most 80% of MaxMemory).
C25_SweepWithinMemory ==
  [][CleanupStep => StoredSize(cache') <= MaxMemory]_vars

\* C26: after every cache operation memoryUsage is the sum of
\* estimateEntrySize over the entries stored; it is never negative.
C26_MemoryUsageExact ==
  memoryUsage = StoredSize(cache) /\ memoryUsage >= 0

\* C27: when a sweep completes, no entry that expired before the time of
\* the sweep is left in the cache, and, while the entries that have not
\* expired are within the memory cap, each of them is still stored with
\* its entry unchanged.
C27_SweepRemovesExpired ==
  [][CleanupStep =>
       LET live == {k \in DOMAIN cache : ~(cache[k].ExpiresAt < now)}
       IN /\ \A k \in DOMAIN cache' : ~(cache'[k].ExpiresAt < now)
          /\ SizeOf(cache, live) <= MaxMemory =>
               \A k \in live : k \in DOMAIN cache' /\ cache'[k] = cache[k]]_vars
\* A sweep has removed an expired entry and left one that expires at the
\* very time of the sweep.
C27_Witness ==
  /\ cLast.op = "Cleanup" /\ cLast.evicted # {}
  /\ \E k \in DOMAIN cache : cache[k].ExpiresAt = now

\* C28: a completed Get adds one to exactly one of hitCount and missCount,
\* to hitCount when it returns found and to missCount when the key is
\* absent or expired; no other operation changes either, so their sum is
\* the number of completed Gets.  A hit adds one to the AccessCount of the
\* entry and sets its LastAccess to the time of the read.
C28_GetCounted ==
  [][/\ GetStep =>
          LET k == cLast'.key
          IN IF cLast'.found
             THEN /\ hitCount' = hitCount + 1 /\ missCount' = missCount
                  /\ cache'[k].AccessCount = cache[k].AccessCount + 1
                  /\ cache'[k].LastAccess = now
             ELSE /\ missCount' = missCount + 1 /\ hitCount' = hitCount
                  /\ k \notin DOMAIN cache \/ cLast'.stale
     /\ ~GetStep => hitCount' = hitCount /\ missCount' = missCount]_vars
\* A Get of an expired entry has been counted as a miss after a Get that
\* was counted as a hit.
C28_Witness ==
  /\ cLast.op = "Get" /\ cLast.stale /\ ~cLast.found
  /\ hitCount >= 1 /\ missCount >= 1

(***************************************************************************)
(* Claims about the worker pool                                            *)
(***************************************************************************)
\* The step is a call of Submit or SubmitAndWait: both pass
\* context.Background(), which is never cancelled, so the call does not
\* leave through `case <-ctx.Done()`.
SubmitStep == SubmitWithContext /\ pLast'.via # "ctx"
SubmitAndWaitStep == SubmitAndWaitWithContext /\ pLast'.via # "ctx"

\* C5: in a running pool, a Submit that is at most the BufferSize-th
\* submission since the pool was last idle (empty queue, no worker holding
\* a task) returns nil, whatever the workers have dequeued in between.
C5_IdleBurstAccepted ==
  [][(SubmitStep /\ status = "running" /\ burst' <= BufferSize)
       => pLast'.ret = "nil"]_vars

\* The BufferSize-th Submit in a row to an idle running pool has returned
\* nil, no worker having dequeued anything yet.
C5_Witness ==
  /\ pLast = Return("Submit", "nil", "send", "none")
  /\ status = "running"
  /\ burst = BufferSize
  /\ Len(taskQueue) = BufferSize

\* The queue holds BufferSize tasks and every worker holds a task.
QueueFullAllBusy == Len(taskQueue) = BufferSize /\ Busy = WorkerIds

\* The call has returned ErrWorkerPoolFull in this step (no caller is left
\* blocked) and the queue and the task counters are as they were.
RejectedFull ==
  /\ pLast'.ret = "full"
  /\ UNCHANGED <<taskQueue, countVars, metrics, calls, resultChan>>

\* C6 as stated: with a full queue and every worker busy, Submit and
\* SubmitAndWait return the pool-full error in the same step and leave the
\* queue and the task counters unchanged.
C6_FullRejected ==
  [][((SubmitStep \/ SubmitAndWaitStep) /\ QueueFullAllBusy)
       => RejectedFull]_vars

\* C6: while the pool is running (Stop has not been called), with a full
\* queue and every worker busy, Submit and SubmitAndWait return the
\* pool-full error in the same step and leave the queue and the task
\* counters unchanged.
C6_FullRejectedRunning ==
  [][((SubmitStep \/ SubmitAndWaitStep) /\ QueueFullAllBusy
        /\ status = "running")
       => RejectedFull]_vars

\* A SubmitAndWait has just been rejected by a running pool whose queue is
\* full and whose workers are all busy.
C6_Witness ==
  /\ pLast = Return("SubmitAndWait", "full", "default", "none")
  /\ status = "running"
  /\ QueueFullAllBusy

\* The workers inside processTask between ActiveTasks++ and ActiveTasks--.
Executing == {w \in WorkerIds : wpc[w] \in {"run", "outcome", "update",
                                            "panicked"}}

\* The workers that hold a submitted task whose function has not returned.
Unreturned == {w \in WorkerIds : wpc[w] \in {"begin", "run"}
                                 /\ wtask[w].HasFn}

\* C7: ActiveTasks is the number of workers executing a task, hence at
\* most the number of workers; and every admitted task is in the queue, or
\* its function has returned, or it is held by a worker of its own (no
\* worker holds two).
C7_ActiveWithinWorkers ==
  /\ metrics.ActiveTasks = Cardinality(Executing)
  /\ metrics.ActiveTasks <= Workers
  /\ admitted = Len(taskQueue) + Cardinality(Unreturned) + tasksTotal

\* Every worker is executing a task.
C7_Witness == metrics.ActiveTasks = Workers /\ Executing = WorkerIds

\* C8: a caller blocked in SubmitAndWait for which one of the three events
\* has occurred (its result was delivered, its context was cancelled, the
\* pool context was cancelled by Stop) returns.
C8_WaitReturns ==
  \A c \in ChanIds :
    (calls[c].pc = "waiting" /\ WaitCases(c) # {}) ~> (calls[c].pc = "free")

\* C9: a SubmitAndWait that returns through its result channel returns
\* what its own task's function returned; whatever a result channel
\* buffers is the value of the task of the caller blocked on it (so the
\* error of a task without result channel reaches no caller); and a
\* returned error adds one to tasksFailed and nothing to tasksSuccess.
C9_ResultIsTaskValue ==
  [][/\ pLast'.via = "result"
          => pLast'.fn \in FnResults /\ pLast'.ret = pLast'.fn
     /\ \A c \in ChanIds :
          resultChan'[c] # <<>>
            => calls'[c].pc = "waiting" /\ Head(resultChan'[c]) = calls'[c].fn
     /\ \A w \in WorkerIds :
          (wpc[w] = "outcome" /\ wpc'[w] # "outcome" /\ werr[w] = "err")
            => tasksFailed' = tasksFailed + 1 /\ tasksSuccess' = tasksSuccess
    ]_vars

\* A SubmitAndWait has returned its task's error through the result
\* channel, the failure having been counted.
C9_Witness ==
  /\ pLast = Return("SubmitAndWait", "err", "result", "err")
  /\ tasksFailed >= 1

\* C10: once Stop has been called (the status is no longer "running"),
\* every Submit and SubmitAndWait call returns an error value and leaves
\* the queue as it was.
C10_IntakeClosed ==
  [][((SubmitWithContext \/ SubmitAndWaitWithContext)
        /\ status # "running")
       => pLast'.ret \in {"canceled", "full"} /\ taskQueue' = taskQueue]_vars

\* C11: after Stop has been called the pool reaches the status "stopped"
\* (no fairness is assumed of the task functions: they need not return).
C11_StopTerminates ==
  \A s \in StopIds : (stopPc[s] # "none") ~> (status = "stopped")

\* The number of accepted tasks that workers have taken from the queue.
Dequeued == admitted - Len(taskQueue)

\* C12: tasks leave the queue in the order of their acceptance: the task a
\* worker dequeues is the earliest accepted task not dequeued before (every
\* task accepted before it has been dequeued by some worker), and the
\* tasks left in the queue were all accepted after it.
C12_FifoDequeue ==
  [][\A w \in WorkerIds :
       (WorkerReceive(w) /\ taskQueue # <<>>)
         => /\ wtask'[w].ID = Dequeued + 1
            /\ \A i \in 1..Len(taskQueue') :
                  taskQueue'[i].ID > wtask'[w].ID]_vars

\* A worker has just dequeued the second accepted task while another
\* worker still holds the first and a third task waits in the queue.
C12_Witness ==
  \E w, v \in WorkerIds :
    /\ wpc[w] = "begin" /\ wtask[w].ID = 2
    /\ v \in Busy /\ wtask[v].ID = 1
    /\ taskQueue # <<>>

\* Worker w is at or past the call of processTask with the task it received.
Processing(w) == wpc[w] \in {"begin", "run", "outcome", "update", "send", "panicked"}

\* C20: every task a worker executes was enqueued by a Submit or
\* SubmitAndWait call: it has a function and carries the number under which
\* it was admitted; no worker executes the zero Task of the closed queue.
C20_NoZeroTask ==
  \A w \in WorkerIds : Processing(w) =>
    wtask[w] # ZeroTask /\ wtask[w].HasFn /\ wtask[w].ID \in 1..admitted

\* The result channel of the task a worker's receive would take (0: none).
NextResult == IF taskQueue # <<>> THEN Head(taskQueue).Result ELSE 0
\* The caller blocked on channel c has had its cancellation signal fire.
SignalFired(c) == calls[c].pc = "waiting" /\ calls[c].ctx = "cancelled"

\* C21: a task that is queued while the cancellation signal of its waiting
\* caller has fired is abandoned: no worker takes it from the queue and
\* hands it to processTask (which calls its function unconditionally).
C21_CancelledAbandoned ==
  [][\A w \in WorkerIds :
       (WorkerReceive(w) /\ NextResult # 0) => ~SignalFired(NextResult)]_vars

\* Worker w has started a submitted task that is not yet counted as
\* succeeded or failed.
Started(w) == wpc[w] \in {"begin", "run", "outcome"} /\ wtask[w].HasFn
\* The place in processTask that follows place pc.
NextPlace(pc) ==
  CASE pc = "begin" -> "run"
    [] pc = "run" -> "outcome"
    [] pc = "outcome" -> "update"

\* C22 without its condition that the process lives on: no step takes a
\* started task from its worker or moves the worker anywhere but to its
\* next place, and the count adds one to exactly one of the two counters.
StartedNotPreempted ==
  [][\A w \in WorkerIds : Started(w) =>
       /\ wtask'[w] = wtask[w]
       /\ wpc'[w] \in {wpc[w], NextPlace(wpc[w])}
       /\ (wpc[w] = "outcome" /\ wpc'[w] = "update") =>
            tasksSuccess' + tasksFailed' = tasksSuccess + tasksFailed + 1]_vars

\* C22: a task that a worker has started runs to completion and is counted,
\* whatever happens to its caller's signal and to the pool meanwhile: no
\* step takes it from its worker or moves the worker anywhere but to its
\* next place, the count adds one to exactly one of the two counters, and
\* the process does not end under it.
C22_StartedCompletes ==
  [][\A w \in WorkerIds : Started(w) =>
       /\ wtask'[w] = wtask[w]
       /\ wpc'[w] \in {wpc[w], NextPlace(wpc[w])}
       /\ (wpc[w] = "outcome" /\ wpc'[w] = "update") =>
            tasksSuccess' + tasksFailed' = tasksSuccess + tasksFailed + 1
       /\ ~crashed']_vars

\* C23: a SubmitAndWaitWithContext call made with a signal that has already
\* fired does not enqueue its task: no call comes to wait on a task in the
\* queue with its signal fired from the start.
C23_FiredNotEnqueued ==
  [][SubmitAndWaitWithContext =>
       \A c \in ChanIds :
         (calls[c].pc = "free" /\ calls'[c].pc = "waiting") =>
           calls'[c].ctx # "cancelled"]_vars

(***************************************************************************)
(* Claims about the streaming handler                                      *)
(***************************************************************************)
\* The response to a GET for an existing file has been written.
ServedGet ==
  request.method = "GET" /\ request.exists /\ response # NoResponse

\* The bytes from..to of the file, counted from 0.
FileSpan(from, to) == [i \in 1..(to - from + 1) |-> from + i]

\* The response is 206 with the range from..to of the file of `size` bytes.
Partial(from, to, size) ==
  /\ response.status = 206
  /\ response.ContentRange = ContentRange(from, to, size)
  /\ response.ContentLength = FormatInt(to - from + 1)
  /\ response.body = FileSpan(from, to)
  /\ response.text = ""

\* The range of the request once the defaults are resolved: an omitted
\* start is 0, an omitted end is the last byte of the file.
ResolvedStart == IF request.a.given THEN request.a.n ELSE 0
ResolvedEnd == IF request.b.given THEN request.b.n ELSE request.size - 1

\* C13: a GET with Range: bytes=a-b and 0 <= a <= b < S, on a file of size
\* S that is opened and read without error, is answered 206 with
\* Content-Range: bytes a-b/S, Content-Length b-a+1 and the bytes a..b of
\* the file as the body.
C13_RangeServed ==
  (/\ ServedGet
   /\ request.io = "ok"
   /\ request.shape = "range" /\ request.a.given /\ request.b.given
   /\ request.a.n <= request.b.n /\ request.b.n < request.size)
    => Partial(request.a.n, request.b.n, request.size)

\* bytes=1-2 of a file of 3 bytes has been served.
C13_Witness ==
  /\ ServedGet
  /\ request.size = 3
  /\ request.a = Bound(1, FALSE) /\ request.b = Bound(2, FALSE)
  /\ response.status = 206
  /\ response.body = <<2, 3>>

\* The resolved range of a GET for an existing file cannot be satisfied.
Unsatisfiable ==
  /\ ServedGet
  /\ request.shape = "range"
  /\ ResolvedEnd >= request.size \/ ResolvedStart > ResolvedEnd

C15_RangeDefaults ==
  (ServedGet /\ request.io = "ok" /\ request.shape = "range")
    => /\ (request.a.given /\ ~request.b.given
             /\ request.a.n < request.size)
            => /\ Partial(request.a.n, request.size - 1, request.size)
               /\ response.ContentLength
                    = FormatInt(request.size - request.a.n)
       /\ (~request.a.given /\ request.b.given
             /\ request.b.n < request.size)
            => Partial(0, request.b.n, request.size)

\* bytes=1- of a file of 3 bytes has been served.
C15_Witness ==
  /\ ServedGet
  /\ request.size = 3
  /\ request.a = Bound(1, FALSE) /\ ~request.b.given
  /\ response.status = 206
  /\ response.body = <<2, 3>>

\* C16: a GET without Range header for an existing file of size S that is
\* opened and read without error is answered 200 with Content-Length S and
\* the whole file as the body.
C16_CompleteFile ==
  (ServedGet /\ request.io = "ok" /\ request.header = <<>>)
    => /\ response.status = 200
       /\ response.ContentLength = FormatInt(request.size)
       /\ response.ContentRange = <<>>
       /\ response.body = FileSpan(0, request.size - 1)
       /\ response.text = ""

\* The largest file has been served whole.
C16_Witness ==
  /\ ServedGet
  /\ request.header = <<>>
  /\ request.size = MaxFileSize
  /\ response.status = 200
  /\ Len(response.body) = MaxFileSize

\* C17: a GET for an existing file whose Range header has no "bytes="
\* prefix, or a first range not of the form <start>-<end>, or a bound that
\* is no number, is answered 400; the file is not opened and no byte of it
\* is sent, whatever the file system would do.
C17_MalformedRange ==
  (ServedGet /\ request.shape = "malformed")
    => /\ response.status = 400
       /\ response.body = <<>>
       /\ ~response.opened

\* 400 has been answered to a header whose first range ends in something
\* that is no number.
C17_Witness ==
  /\ ServedGet
  /\ request.header \in NoNumberHeaders
  /\ response.status = 400
  /\ response.text = "Invalid range end"


(***************************************************************************)
(* Claims about the locks, checked under SpecLocks.                        *)
(***************************************************************************)
\* The guarded locks a call path holds.
GuardedHeld(p) == {l \in Guarded : Held(p, l)}

\* C19: no call path holds two of the cache lock, the pool's metrics lock
\* and the buffer pool's lock at a time; a worker that is inside the task
\* function (where alone a worker takes the listing mutex) has given back
\* the metrics lock; the listing holds the cache lock only outside the
\* fan-out; and no set of call paths wait for one another in a cycle.
C19_NoTwoGuardedLocks ==
  /\ \A p \in PathNames : Cardinality(GuardedHeld(p)) <= 1
  /\ Held("processTask", "listing") => ~Held("processTask", "metrics")
  /\ Held("ListDirectory", "listing") => ~Held("ListDirectory", "cache")
  /\ ~Deadlocked
\* C19 witness: a worker is inside the task function while other call paths
\* hold the cache lock, the metrics lock and the buffer pool's lock.
C19_Witness ==
  /\ Held("processTask", "listing")
  /\ \A l \in Guarded : \E p \in PathNames : Held(p, l)
  /\ \E p \in PathNames : Held(p, "perf") /\ Held(p, "metrics")

(***************************************************************************)
(* Claims about the directory listing, checked under SpecListing.          *)
(***************************************************************************)
\* The number of times entry e occurs in the sequence fs.
Occurrences(fs, e) == Cardinality({k \in 1..Len(fs) : fs[k] = e})

\* C29: the listing that processFilesParallel returns holds every entry
\* whose file info can be read exactly once and nothing else, whichever
\* batches the pool accepted and however their tasks interleaved.
C29_EachEntryOnce ==
  lsPc = "done" =>
    /\ \A e \in 1..NumEntries :
         Occurrences(listing, e) = IF Readable(e) THEN 1 ELSE 0
    /\ \A k \in 1..Len(listing) : listing[k] \in 1..NumEntries
\* A listing is complete of which one batch was run by the pool and one,
\* refused by the full pool, by the caller, with an entry that cannot be
\* read and one that can in each of the two.
C29_Witness ==
  /\ lsPc = "done"
  /\ DOMAIN batchOf # {} /\ Len(files) > NumEntries
  /\ unreadable # {} /\ Len(listing) = NumEntries - 1
  /\ ~ctxDone

\* C30: the wait of the listing for its batch tasks returns in every
\* execution: the caller is never left in wg.Wait() with a batch
\* outstanding when no worker remains to run it.
C30_WaitNotStranded ==
  (lsPc = "wait" /\ wg > 0) => \E w \in WorkerIds : wpc[w] # "exited"

(***************************************************************************)
(* Claims about the performance service, checked under SpecPerf.           *)
(***************************************************************************)
\* C31: for any pool name, concurrent GetOrCreateWorkerPool calls all
\* return the same pool and at most one pool is ever created for the name,
\* so that every pool that was created is in the registry (where
\* PerformanceService.Stop finds and stops it).
C31_OnePoolPerName ==
  /\ \A c1, c2 \in Callers :
       (gpc[c1] = "done" /\ gpc[c2] = "done" /\ gname[c1] = gname[c2])
         => gret[c1] = gret[c2]
  /\ \A i, j \in DOMAIN pools : pools[i].name = pools[j].name => i = j
  /\ \A i \in DOMAIN pools : workerPools[pools[i].name] = i

\* C38: a run of updateMetrics leaves every worker pool and the cache as
\* they are (queue, counters, status, entries, the registry), and it
\* leaves every snapshot that GetMetrics has returned as it is, the map of
\* the pools' metrics the snapshot refers to included.
C38_SamplingFrame ==
  [][PerfUpdateMetrics =>
       /\ UNCHANGED <<cacheVars, poolVars, pools, workerPools>>
       /\ snapshots' = snapshots
       /\ \A i \in DOMAIN snapshots :
            MapAt(heap', snapshots[i].WorkerPools)
              = MapAt(heap, snapshots[i].WorkerPools)
    ]_vars

\* A snapshot taken after a first sampling, and a later sampling that
\* found the pools changed.
C38_Witness ==
  \E i \in DOMAIN snapshots :
    /\ snapshots[i].WorkerPools # NilMap
    /\ psMetrics # snapshots[i].WorkerPools
    /\ MapAt(heap, psMetrics) # MapAt(heap, snapshots[i].WorkerPools)

(***************************************************************************)
(* Further claims about the worker pool, checked under SpecPool.           *)
(***************************************************************************)
\* C32: every snapshot GetMetrics returns has TotalTasks = SuccessfulTasks
\* + FailedTasks, however the workers that finish tasks interleave, and
\* TotalTasks does not decrease from one snapshot to the next.
C32_TotalsAddUp ==
  [][ /\ GetMetrics'.TotalTasks
           = GetMetrics'.SuccessfulTasks + GetMetrics'.FailedTasks
      /\ GetMetrics'.TotalTasks >= GetMetrics.TotalTasks
    ]_vars

\* The steps of the lifecycle.
LifecycleOrder ==
  {<<"starting", "running">>, <<"running", "stopping">>,
   <<"stopping", "stopped">>}

\* C33: the status of the pool only advances in the order starting,
\* running, stopping, stopped: it is running when the constructor has
\* returned, and once it is stopped it does not change again, whatever is
\* called, a second Stop included.
C33_StatusAdvances ==
  [][ /\ status # "starting"
      /\ status' # status => <<status, status'>> \in LifecycleOrder
    ]_vars

(***************************************************************************)
(* Further claims about the streaming handler, checked under SpecStream.   *)
(***************************************************************************)
\* C34: a streaming request writes exactly one status: when os.Open or
\* file.Seek fails after the validation it is 500 and no success status,
\* and when the copy fails after 200 or 206 was written no further status
\* and no error text is written.
C34_OneStatus ==
  response # NoResponse =>
    /\ response.writes = 1
    /\ (response.opened /\ request.io = "open") => response.status = 500
    /\ (response.opened /\ request.io = "seek" /\ request.header # <<>>)
         => response.status = 500
    /\ (response.opened /\ request.io = "copy")
         => (response.status \in {200, 206} /\ response.text = "")

\* A copy that failed after the 200 was written.
C34_Witness ==
  /\ request.io = "copy"
  /\ response.status = 200
  /\ Len(response.body) < request.size

\* C35: a HEAD request for an existing file ends after the headers are set
\* with nothing copied, with a Range header or without; an OPTIONS request
\* ends with the CORS headers and no body, and neither resolves the path
\* nor opens a file.
C35_HeadAndOptions ==
  /\ (response # NoResponse /\ request.method = "HEAD" /\ request.exists)
       => /\ response.status = 200 /\ response.writes = 1
          /\ response.AcceptRanges = "bytes"
          /\ response.ContentLength = FormatInt(request.size)
          /\ response.body = <<>> /\ response.text = ""
          /\ ~response.opened
  /\ (response # NoResponse /\ request.method = "OPTIONS")
       => /\ response.status = 200 /\ response.writes = 1
          /\ response.CORS
          /\ response.body = <<>> /\ response.text = ""
          /\ ~response.resolved /\ ~response.opened

\* A HEAD request with a Range header for a file that is not empty.
C35_Witness ==
  /\ response # NoResponse
  /\ request.method = "HEAD" /\ request.exists
  /\ request.shape = "range" /\ request.size > 0

\* C36: with several comma-separated ranges in the Range header, the
\* response is the one to the request that carries the first range
\* alone, whatever the later ranges are.
C36_FirstRangeOnly ==
  (response # NoResponse /\ request.shape = "range") =>
    \E pad \in Padding, later \in LaterRanges :
      /\ request.header = RangeHeader(request.a, request.b, pad, later)
      /\ \E k \in 0..MaxFileSize, keep \in BOOLEAN :
           response =
             Response([request EXCEPT
                         !.header = RangeHeader(request.a, request.b, pad,
                                                <<>>)],
                      request.io, k, keep)

\* A range served from a header with a further range behind it.
C36_Witness ==
  /\ response.status = 206
  /\ request.shape = "range"
  /\ \E pad \in Padding, later \in LaterRanges \ {<<>>} :
       request.header = RangeHeader(request.a, request.b, pad, later)

\* C37: every response of the streaming handler (200, 206, 400, 404, 416,
\* 500, to HEAD, to OPTIONS) carries Accept-Ranges: bytes and the CORS
\* headers.
C37_AlwaysAdvertises ==
  response # NoResponse =>
    (response.AcceptRanges = "bytes" /\ response.CORS)

\* C39: every StartStream is matched by one EndStream: ActiveStreams is
\* the number of full-file responses in progress.  HandleStream is one
\* step, so that in every state no response is in progress: ActiveStreams
\* is 0, also after requests whose file could not be opened.
C39_StartsMatched == activeStreams = 0

=============================================================================
